---- MODULE Spec2Model ----
(***************************************************************************)
(* Buglin content script: the field overlay engine (content.js) and the    *)
(* word scanner (wordscanner.js) as state machines.  Every handler of the  *)
(* scripts (storage callbacks, mutation-observer callbacks, timers, pointer*)
(* and scroll events) is one atomic action: the host event loop runs each  *)
(* task to completion.  A page task that edits the DOM and the observer    *)
(* callbacks that deliver its mutation records (a microtask of the same    *)
(* task) form one action.  document.body is taken to exist throughout, as  *)
(* observeDOM requires.  The callback of the initial storage read and the  *)
(* change notifications are separate tasks that the host delivers in any   *)
(* order.                                                                  *)
(***************************************************************************)
EXTENDS Integers, Sequences, FiniteSets, TLC

\* ------------------------------------------------------------- bounds
NumFields == 2      \* candidate form fields (input, textarea, select) of the page
MaxOverlays == 3    \* overlay elements alive at once (in the document or still referenced)
MaxBatch == 2       \* mutation records (field added / field removed) in one batch
NumNodes == 2       \* nodes of the page the word scanner can see mutate
MaxListeners == 2   \* DOMContentLoaded listeners registered while the page loads

Fields == 1..NumFields
OvIds == 1..MaxOverlays
Nodes == 1..NumNodes

Levels == {"high", "medium", "low"}
\* What analyzeField returns for a field that is attached and rendered:
\* a verdict with findings (its riskLevel), "nofind" (a verdict of level low
\* whose risks list is empty), or "null" (skipped kind, hidden or zero-sized).
Kinds == Levels \cup {"nofind", "null"}
\* The verdicts a handler can read: a field outside the document renders nothing.
Verdicts(att) == {vd \in [Fields -> Kinds] : \A f \in Fields \ att : vd[f] = "null"}
NoVerdict == [f \in Fields |-> "null"]

ZeroStats == [high |-> 0, medium |-> 0, low |-> 0, total |-> 0]
FreeOv == [field |-> 0, cls |-> "none", inDoc |-> FALSE, tipInDoc |-> FALSE, timers |-> 0,
           hidden |-> FALSE]

VARIABLES
  \* --- the page, as the overlay engine sees it
  attached,           \* fields attached to the document
  ov,                 \* overlay elements: owner field, risk class, overlay in document,
                      \* its tooltip in document, pending auto-hide timers of its badge
  hovered,            \* overlay whose badge the pointer is over (0: none)
  \* --- content.js state
  loadPending,        \* chrome.storage.local.get callback not yet delivered
  isEnabled,
  fieldStats,
  analyzedFields,     \* "absent" | "null" | "nofind" | a level (cached analysis)
  overlayMap,         \* field -> overlay id, 0 when no entry
  tooltipMap,         \* field -> id of the overlay whose tooltip is mapped, 0 when no entry
  domObserver,        \* "null" | "set"
  domObserving,       \* number of connected observers of the overlay engine
  reconcileInterval,  \* "null" | "set"
  reconcileTimers,    \* number of running intervals
  rescanTimeout,      \* "live": names a pending timer | "dead": null, or names a
                      \* timer that fired or was cleared (clearTimeout ignores it)
  rescanQ,            \* pending rescan timers, each with the newFields its closure captured
  repositionTimeout,  \* "live" | "dead", as rescanTimeout
  reposTimers,        \* number of pending reposition timers
  scrollListenersAttached,
  badgeWatched,       \* whether the report the badge consumer got last is recorded
  lastReport,         \* <<>>, or the stats of the last report when badgeWatched
  \* --- wordscanner.js state and the page, as the word scanner sees it
  wsLoadPending,
  readyState,         \* "loading" | "complete"
  dclListeners,       \* DOMContentLoaded listeners registered by runWordScannerWhenReady
  wordScannerEnabled,
  forbiddenWords,     \* "A" | "B" | "empty": one of two word lists, or no word
  wordScannerObserver,        \* "null" | "set"
  wsConnected,                \* the scanner's observer is observing
  wordScannerRescanTimeout,   \* "live" | "dead", as rescanTimeout
  wsTimers,                   \* number of pending incremental-rescan timers
  pendingMutationTargets,     \* set of nodes
  nodeAttached,       \* nodes attached to the document
  nodeText,           \* nodeText[n]: a member of Texts or of Marked
  wordScannerHighlights,      \* tracked highlight spans, named by their node
  wsLastScan,         \* roots handed to the last incremental pass and whether the
                      \* observer was connected while it wrote
  \* --- one container element of the page, character by character
  hlWords,            \* the word list the pattern is built from
  hlDoc,              \* the container's child nodes in order: text nodes and spans
  hlGone,             \* number of tracked spans that have no parent any more
  hlLast,             \* the last operation on the container and what it found
  \* --- one call of a function of analysis.js or of the message listener
  callArgs,           \* the arguments of the call
  callResult          \* t = "pending" before the call returns, then what it returned

ovVars == <<attached, ov, hovered, loadPending, isEnabled, fieldStats,
            analyzedFields, overlayMap, tooltipMap, domObserver, domObserving,
            reconcileInterval, reconcileTimers, rescanTimeout, rescanQ,
            repositionTimeout, reposTimers, scrollListenersAttached,
            badgeWatched, lastReport>>
wsVars == <<wsLoadPending, readyState, dclListeners, wordScannerEnabled,
            forbiddenWords, wordScannerObserver, wsConnected,
            wordScannerRescanTimeout, wsTimers, pendingMutationTargets,
            nodeAttached, nodeText, wordScannerHighlights, wsLastScan>>
hlVars == <<hlWords, hlDoc, hlGone, hlLast>>
fnVars == <<callArgs, callResult>>
vars == <<ovVars, wsVars, hlVars, fnVars>>

Range(q) == {q[k] : k \in DOMAIN q}
Min(S) == CHOOSE x \in S : \A y \in S : x <= y
Max0(n) == IF n > 0 THEN n - 1 ELSE 0

\* ------------------------------------------------- overlay engine: helpers
\* The mutable state of content.js and its DOM artifacts, threaded through a
\* handler; sent collects the stat reports the handler sends to the badge
\* consumer, in order.
Cur == [ov |-> ov, overlayMap |-> overlayMap, tooltipMap |-> tooltipMap,
        analyzed |-> analyzedFields, stats |-> fieldStats, hov |-> hovered,
        domObserver |-> domObserver, domObserving |-> domObserving,
        reconcileInterval |-> reconcileInterval, reconcileTimers |-> reconcileTimers,
        rescanTimeout |-> rescanTimeout, rescanQ |-> rescanQ,
        repositionTimeout |-> repositionTimeout, reposTimers |-> reposTimers,
        scroll |-> scrollListenersAttached,
        sent |-> <<>>, ok |-> TRUE, recs |-> "none"]

\* The mutation records a handler's own DOM writes leave for the observers:
\* "added" when it inserted a node, "removed" when it only removed nodes.
Removed(r) == IF r = "none" THEN "removed" ELSE r

\* An overlay element that is in no document, shows no tooltip, has no pending
\* timer and is referenced by no map is garbage: its identity is free again.
Collect(o, om, tm) ==
  [i \in OvIds |->
     IF o[i].inDoc \/ o[i].tipInDoc \/ o[i].timers > 0
        \/ (\E f \in Fields : om[f] = i \/ tm[f] = i)
     THEN o[i] ELSE FreeOv]

\* analyzeField: null for an element without rendered size (a detached element
\* has none), else the verdict of its attributes.  vd[f] is what the attributes
\* and the rendering of f yield at the time of the call: the page can change
\* both at any time, so every handler reads them afresh.
analyzeField(f, att, vd) == IF f \in att THEN vd[f] ELSE "null"

RiskLevelOf(a) == IF a = "nofind" THEN "low" ELSE a

Bump(stats, lvl, d) ==
  [stats EXCEPT ![lvl] = @ + d, !.total = @ + d]

updateBadge(st) == [st EXCEPT !.sent = Append(@, st.stats)]

CountOverlays(o) ==
  [high |-> Cardinality({i \in OvIds : o[i].inDoc /\ o[i].cls = "high"}),
   medium |-> Cardinality({i \in OvIds : o[i].inDoc /\ o[i].cls = "medium"}),
   low |-> Cardinality({i \in OvIds : o[i].inDoc /\ o[i].cls = "low"}),
   total |-> Cardinality({i \in OvIds : o[i].inDoc})]

\* createOverlay without the removal of the existing overlay.
createOverlay_Append(st, f, lvl) ==
  LET o2 == Collect(st.ov, st.overlayMap, st.tooltipMap)
      free == {i \in OvIds : o2[i].field = 0}
  IN IF free = {} THEN [st EXCEPT !.ok = FALSE]
     ELSE LET id == Min(free) IN
       [st EXCEPT !.ov = [o2 EXCEPT ![id] = [field |-> f, cls |-> lvl, inDoc |-> TRUE,
                                             tipInDoc |-> FALSE, timers |-> 0,
                                             hidden |-> FALSE]],
                  !.overlayMap[f] = id,
                  !.tooltipMap[f] = id,
                  !.recs = "added"]

\* createOverlay(analysis): an existing overlay of the element is removed from
\* the document (its tooltip and its badge's timer are left alone), then a new
\* overlay element is appended and both maps point to it.  A handler that
\* needs more overlay elements than MaxOverlays is not taken (ok = FALSE).
createOverlay(st, f, lvl) ==
  LET existing == st.overlayMap[f]
      o1 == IF existing # 0 THEN [st.ov EXCEPT ![existing].inDoc = FALSE] ELSE st.ov
      hov1 == IF existing # 0 /\ st.hov = existing THEN 0 ELSE st.hov
      om1 == [st.overlayMap EXCEPT ![f] = 0]
      tm1 == [st.tooltipMap EXCEPT ![f] = 0]
      o2 == Collect(o1, om1, tm1)
      free == {i \in OvIds : o2[i].field = 0}
  IN IF free = {} THEN [st EXCEPT !.ok = FALSE]
     ELSE LET id == Min(free) IN
       [st EXCEPT !.ov = [o2 EXCEPT ![id] = [field |-> f, cls |-> lvl, inDoc |-> TRUE,
                                             tipInDoc |-> FALSE, timers |-> 0,
                                             hidden |-> FALSE]],
                  !.overlayMap = [om1 EXCEPT ![f] = id],
                  !.tooltipMap = [tm1 EXCEPT ![f] = id],
                  !.hov = hov1,
                  !.recs = "added"]

\* One iteration of the classification loops of scanPage and of the debounced
\* pass: cache the analysis, and for a verdict with findings create the overlay
\* and count it.
ClassifyField(st, f, att, vd) ==
  LET a == analyzeField(f, att, vd)
      s1 == [st EXCEPT !.analyzed[f] = a]
  IN IF a \in Levels
     THEN LET s2 == createOverlay(s1, f, a)
          IN [s2 EXCEPT !.stats = Bump(@, a, 1)]
     ELSE s1

\* The fields of `fs`, in order, each classified.
RECURSIVE ScanFields(_, _, _, _)
ScanFields(st, fs, att, vd) ==
  IF fs = <<>> THEN st
  ELSE ScanFields(ClassifyField(st, Head(fs), att, vd), Tail(fs), att, vd)

\* document.querySelectorAll('input, textarea, select'): the attached fields
\* in document order (the order of their identities).
RECURSIVE DocOrder(_)
DocOrder(S) == IF S = {} THEN <<>> ELSE <<Min(S)>> \o DocOrder(S \ {Min(S)})

scanPage(st, enabled, att, vd) ==
  IF ~enabled THEN st
  ELSE updateBadge(ScanFields([st EXCEPT !.stats = ZeroStats], DocOrder(att), att, vd))

\* reconcileStats that reports whether or not the counters had drifted.
reconcileStats_AlwaysReport(st) ==
  updateBadge([st EXCEPT !.stats = CountOverlays(st.ov)])

reconcileStats(st) ==
  LET actual == CountOverlays(st.ov)
  IN IF st.stats # actual THEN updateBadge([st EXCEPT !.stats = actual]) ELSE st

\* removeAllOverlays without the removal of the tooltip elements.
removeAllOverlays_KeepTooltips(st, att) ==
  LET o1 == [i \in OvIds |->
               IF st.ov[i].inDoc
               THEN [st.ov[i] EXCEPT !.timers = Max0(@), !.inDoc = FALSE]
               ELSE st.ov[i]]
  IN [st EXCEPT !.ov = o1,
                !.hov = 0,
                !.recs = IF \E i \in OvIds : st.ov[i].inDoc THEN Removed(@) ELSE @,
                !.analyzed = [f \in Fields |-> IF f \in att THEN "absent" ELSE @[f]],
                !.overlayMap = [f \in Fields |-> IF f \in att THEN 0 ELSE @[f]],
                !.tooltipMap = [f \in Fields |-> IF f \in att THEN 0 ELSE @[f]]]

\* removeAllOverlays: the timers of the badges in the document are cleared,
\* every overlay and tooltip element in the document is removed, and the map
\* entries of the fields in the document are deleted.
removeAllOverlays(st, att) ==
  LET o1 == [i \in OvIds |->
               IF st.ov[i].inDoc
               THEN [st.ov[i] EXCEPT !.timers = Max0(@), !.inDoc = FALSE, !.tipInDoc = FALSE]
               ELSE [st.ov[i] EXCEPT !.tipInDoc = FALSE]]
  IN [st EXCEPT !.ov = o1,
                !.hov = 0,
                !.recs = IF \E i \in OvIds : st.ov[i].inDoc \/ st.ov[i].tipInDoc
                         THEN Removed(@) ELSE @,
                !.analyzed = [f \in Fields |-> IF f \in att THEN "absent" ELSE @[f]],
                !.overlayMap = [f \in Fields |-> IF f \in att THEN 0 ELSE @[f]],
                !.tooltipMap = [f \in Fields |-> IF f \in att THEN 0 ELSE @[f]]]

\* The removal loop body of the mutation callback for one removed field.
RemoveField(st, f) ==
  LET o == st.overlayMap[f]
      s1 == IF o # 0
            THEN [st EXCEPT !.ov[o].timers = Max0(@), !.ov[o].inDoc = FALSE,
                            !.overlayMap[f] = 0,
                            !.recs = IF st.ov[o].inDoc THEN Removed(@) ELSE @,
                            !.hov = IF @ = o THEN 0 ELSE @]
            ELSE st
      t == s1.tooltipMap[f]
      s2 == IF t # 0
            THEN [s1 EXCEPT !.ov[t].tipInDoc = FALSE, !.tooltipMap[f] = 0,
                            !.recs = IF s1.ov[t].tipInDoc THEN Removed(@) ELSE @]
            ELSE s1
      cached == s2.analyzed[f]
  IN IF cached \notin {"absent", "null"}
     THEN [s2 EXCEPT !.stats = Bump(@, RiskLevelOf(cached), -1), !.analyzed[f] = "absent"]
     ELSE s2

RECURSIVE RemoveFields(_, _)
RemoveFields(st, fs) ==
  IF fs = <<>> THEN st ELSE RemoveFields(RemoveField(st, Head(fs)), Tail(fs))

\* The loop body of the debounced pass: a field with a cache entry is skipped.
RescanField(st, f, att, vd) ==
  IF st.analyzed[f] # "absent" THEN st ELSE ClassifyField(st, f, att, vd)

RECURSIVE RescanFields(_, _, _, _)
RescanFields(st, fs, att, vd) ==
  IF fs = <<>> THEN st
  ELSE RescanFields(RescanField(st, Head(fs), att, vd), Tail(fs), att, vd)

\* ------------------------------------------------- page mutations
\* A batch is a sequence of records; each adds a detached field or removes an
\* attached one (a move is a removal followed by an addition).
AfterOp(att, op) == IF op.add THEN att \cup {op.f} ELSE att \ {op.f}
ValidOp(att, op) == IF op.add THEN op.f \notin att ELSE op.f \in att
Ops == [add : BOOLEAN, f : Fields]

RECURSIVE Batches(_, _)
Batches(att, n) ==
  IF n = 0 THEN {<<>>}
  ELSE {<<>>} \cup
       UNION {{<<op>> \o b : b \in Batches(AfterOp(att, op), n - 1)} :
              op \in {o \in Ops : ValidOp(att, o)}}

RECURSIVE AfterBatch(_, _)
AfterBatch(att, b) == IF b = <<>> THEN att ELSE AfterBatch(AfterOp(att, Head(b)), Tail(b))

RECURSIVE FieldsOf(_, _)
FieldsOf(b, add) ==
  IF b = <<>> THEN <<>>
  ELSE (IF Head(b).add = add THEN <<Head(b).f>> ELSE <<>>) \o FieldsOf(Tail(b), add)

\* ------------------------------------------------- word scanner: helpers
\* Node 0 stands for any element without text of its own that enters the
\* document: a form field, or an overlay or tooltip of the overlay engine.
OtherNode == 0

\* The word lists the popup can store: the default list A, another list B that
\* shares no word with it, and the list without words.
WordLists == {"A", "B", "empty"}

\* The text of a node: without a forbidden word, with a word of list A, or with
\* a word of list B.  A starred text has that word wrapped in a highlight span.
Texts == {"clean", "a", "b"}
Marked == {"a*", "b*"}
Plain(t) == IF t = "a*" THEN "a" ELSE IF t = "b*" THEN "b" ELSE t
Mark(t) == IF t = "a" THEN "a*" ELSE IF t = "b" THEN "b*" ELSE t
\* pattern.test(node.textContent) for the pattern built from the list.
Matches(words, t) == (words = "A" /\ t = "a") \/ (words = "B" /\ t = "b")

\* Nodes with an even number are bare text nodes, children of an element that
\* stands in the page from the start; the others are elements with text of
\* their own.  ParentOf(n) names the parent element of the text node n.
IsTextNode(n) == n % 2 = 0
ParentOf(n) == 0 - n

\* The text nodes a TreeWalker rooted at each of `roots` returns: the walker
\* never returns its root, so a text node that is itself a root is not visited.
WalkedUnder(roots, natt) ==
  {n \in natt : IF IsTextNode(n) THEN ParentOf(n) \in roots ELSE n \in roots}

\* The mutable state of wordscanner.js and the text it edits, threaded through
\* a handler; sent collects the counts reported to the badge consumer, and
\* seen tells that the scanner's own observer recorded a write of the handler.
CurW == [enabled |-> wordScannerEnabled, words |-> forbiddenWords,
         observer |-> wordScannerObserver, connected |-> wsConnected,
         handle |-> wordScannerRescanTimeout, timers |-> wsTimers,
         pending |-> pendingMutationTargets, text |-> nodeText,
         tracked |-> wordScannerHighlights, listeners |-> dclListeners,
         sent |-> <<>>, lastScan |-> wsLastScan, seen |-> FALSE]

updateWordScannerBadge(w) == [w EXCEPT !.sent = Append(@, Cardinality(w.tracked))]

\* removeWordHighlights: every tracked span that has a parent, and every
\* highlight-class element of the document, becomes a plain text node again.
removeWordHighlights(w, natt) ==
  [w EXCEPT !.text = [n \in Nodes |->
                        IF @[n] \in Marked /\ (n \in w.tracked \/ n \in natt)
                        THEN Plain(@[n]) ELSE @[n]],
            !.tracked = {},
            !.seen = @ \/ (w.connected /\ \E n \in natt : w.text[n] \in Marked)]

\* highlightForbiddenWordsInNode over the accepted ones of the text nodes
\* `walked`: text holding a forbidden word is split and the word wrapped in a
\* tracked span.  Text already inside a highlight is rejected by the filter.
HighlightNodes(w, walked) ==
  LET hit == {n \in walked \cap Nodes : Matches(w.words, w.text[n])}
  IN [w EXCEPT !.text = [n \in Nodes |-> IF n \in hit THEN Mark(@[n]) ELSE @[n]],
               !.tracked = @ \cup hit,
               !.seen = @ \/ (w.connected /\ hit # {})]

\* A pass that leaves its observer observing while it writes.
PauseObserver_Skip(w) == w

\* observer.disconnect() at the start of a pass that writes to the document.
PauseObserver(w) == [w EXCEPT !.connected = FALSE]

\* observer.observe(document.body, ...) at the end of such a pass.
ResumeObserver(w) ==
  IF w.observer = "set" /\ w.enabled THEN [w EXCEPT !.connected = TRUE] ELSE w

scanForForbiddenWords(w, natt) ==
  IF ~w.enabled THEN w
  ELSE LET w1 == IF w.observer = "set" THEN PauseObserver(w) ELSE w
           w2 == removeWordHighlights(w1, natt)
       IN IF w2.words = "empty"
          THEN ResumeObserver(updateWordScannerBadge(w2))
          ELSE ResumeObserver(updateWordScannerBadge(HighlightNodes(w2, natt)))

\* scanSubtreesForForbiddenWords that walks a root whether or not the document
\* still contains it.
scanSubtreesForForbiddenWords_AnyRoot(w, roots, natt) ==
  IF ~w.enabled \/ w.words = "empty" THEN w
  ELSE updateWordScannerBadge(HighlightNodes(w, WalkedUnder(roots, Nodes)))

scanSubtreesForForbiddenWords(w, roots, natt) ==
  IF ~w.enabled \/ w.words = "empty" THEN w
  ELSE updateWordScannerBadge(HighlightNodes(w, WalkedUnder(roots, natt)))

startWordScannerObserver(w) ==
  IF w.observer = "set" THEN w
  ELSE [w EXCEPT !.observer = "set", !.connected = TRUE]

stopWordScannerObserver(w) ==
  LET w1 == IF w.observer = "set"
            THEN [w EXCEPT !.observer = "null", !.connected = FALSE] ELSE w
      w2 == IF w1.handle = "live"
            THEN [w1 EXCEPT !.handle = "dead", !.timers = @ - 1] ELSE w1
  IN [w2 EXCEPT !.pending = {}]

runWordScannerWhenReady(w, rs, natt) ==
  IF rs = "loading" THEN [w EXCEPT !.listeners = @ + 1]
  ELSE startWordScannerObserver(scanForForbiddenWords(w, natt))

\* clearTimeout(wordScannerRescanTimeout); wordScannerRescanTimeout = setTimeout(...)
RearmWordScannerTimer(w) ==
  [w EXCEPT !.timers = (IF w.handle = "live" THEN @ - 1 ELSE @) + 1,
            !.handle = "live"]

\* The observer callback that keeps only the targets of the latest batch.
WordScannerCallback_Replace(w, added) ==
  IF ~w.enabled THEN w
  ELSE RearmWordScannerTimer([w EXCEPT !.pending = added])

\* The scanner's observer callback for one batch: `added` are the added nodes
\* and the parent elements of changed character data.
WordScannerCallback(w, added) ==
  IF ~w.enabled THEN w
  ELSE RearmWordScannerTimer([w EXCEPT !.pending = @ \cup added])

\* The end of the debounced pass: the observer observes again if the scanner
\* is enabled.  A pending timer was set by the callback of the current
\* observer (stopWordScannerObserver clears it), so the observer exists.
ReconnectObserver(w) == IF w.enabled THEN [w EXCEPT !.connected = TRUE] ELSE w

\* The debounced incremental pass (the timer's callback).
WordScannerPass(w, natt) ==
  IF w.pending = {} THEN w
  ELSE LET w1 == PauseObserver(w)
           targets == w1.pending
           w2 == [w1 EXCEPT !.pending = {},
                            !.lastScan = [roots |-> targets, observing |-> w1.connected]]
       IN ReconnectObserver(scanSubtreesForForbiddenWords(w2, targets, natt))

CommitW(w) ==
  /\ wordScannerEnabled' = w.enabled
  /\ forbiddenWords' = w.words
  /\ wordScannerObserver' = w.observer
  /\ wsConnected' = w.connected
  /\ wordScannerRescanTimeout' = w.handle
  /\ wsTimers' = w.timers
  /\ pendingMutationTargets' = w.pending
  /\ nodeText' = w.text
  /\ wordScannerHighlights' = w.tracked
  /\ dclListeners' = w.listeners
  /\ wsLastScan' = w.lastScan
  /\ UNCHANGED <<hlVars, fnVars>>

\* The records an overlay-engine task or a change of the page's fields leaves
\* are delivered to the scanner's observer when it is connected.
WsObserve(recs) ==
  IF recs # "none" /\ wsConnected
  THEN /\ CommitW(WordScannerCallback(CurW, IF recs = "added" THEN {OtherNode} ELSE {}))
       /\ UNCHANGED <<wsLoadPending, readyState, nodeAttached>>
  ELSE UNCHANGED <<wsVars, hlVars, fnVars>>

\* ------------------------------------------------- overlay engine: handles
observeDOM(st) ==
  IF st.domObserver = "set" THEN st
  ELSE [st EXCEPT !.domObserver = "set", !.domObserving = @ + 1]

stopObserving(st) ==
  IF st.domObserver = "set"
  THEN [st EXCEPT !.domObserver = "null", !.domObserving = Max0(@)]
  ELSE st

\* An enable sequence that never starts the reconciliation interval.
startReconcileInterval_Never(st) == st

startReconcileInterval(st) ==
  IF st.reconcileInterval = "set" THEN st
  ELSE [st EXCEPT !.reconcileInterval = "set", !.reconcileTimers = @ + 1]

stopReconcileInterval(st) ==
  IF st.reconcileInterval = "set"
  THEN [st EXCEPT !.reconcileInterval = "null", !.reconcileTimers = Max0(@)]
  ELSE st

DropLast(q) == IF q = <<>> THEN q ELSE SubSeq(q, 1, Len(q) - 1)

\* clearTimeout(rescanTimeout): the handle names the timer scheduled last,
\* which is the last pending one unless it has fired or was cleared.
CancelRescan(st) ==
  IF st.rescanTimeout = "live"
  THEN [st EXCEPT !.rescanQ = DropLast(@), !.rescanTimeout = "dead"]
  ELSE st

clearRescanTimeout(st) == CancelRescan(st)

\* The rescan timer set without clearing the pending one.
ScheduleRescan_NoCancel(st, newFields) ==
  [st EXCEPT !.rescanQ = Append(@, newFields), !.rescanTimeout = "live"]

\* clearTimeout(rescanTimeout); rescanTimeout = setTimeout(closure over newFields, 100)
ScheduleRescan(st, newFields) ==
  [CancelRescan(st) EXCEPT !.rescanQ = Append(@, newFields), !.rescanTimeout = "live"]

clearRepositionTimeout(st) ==
  IF st.repositionTimeout = "live"
  THEN [st EXCEPT !.repositionTimeout = "dead", !.reposTimers = @ - 1]
  ELSE st

\* repositionOverlays: clearTimeout(repositionTimeout); repositionTimeout = setTimeout(..., 16)
repositionOverlays(st) ==
  [clearRepositionTimeout(st) EXCEPT !.reposTimers = @ + 1, !.repositionTimeout = "live"]

\* A pass that takes the overlay of a field without size out of the document.
RepositionPass_Remove(st, att, zero) ==
  [st EXCEPT !.ov = [i \in OvIds |->
     IF \E f \in att \cap zero : st.overlayMap[f] = i
     THEN [@[i] EXCEPT !.inDoc = FALSE] ELSE @[i]]]

\* The timer callback of repositionOverlays: for every field in the document
\* that overlayMap knows, the overlay is hidden if the field has no size, and
\* shown at the field's rectangle otherwise.  Coordinates are not modelled.
RepositionPass(st, att, zero) ==
  [st EXCEPT !.ov = [i \in OvIds |->
     IF \E f \in att : st.overlayMap[f] = i
     THEN [@[i] EXCEPT !.hidden = (\E f \in att \cap zero : st.overlayMap[f] = i)]
     ELSE @[i]]]

addScrollListeners(st) == [st EXCEPT !.scroll = TRUE]
removeScrollListeners(st) == [st EXCEPT !.scroll = FALSE]

\* The enable branch shared by the storage-load callback and the change listener.
EnableEngine(st, att, vd) ==
  addScrollListeners(startReconcileInterval(observeDOM(scanPage(st, TRUE, att, vd))))

\* The disable branch of the change listener.
DisableEngine(st, att) ==
  LET s1 == removeScrollListeners(clearRescanTimeout(clearRepositionTimeout(
              stopReconcileInterval(stopObserving(st)))))
      s2 == removeAllOverlays(s1, att)
  IN updateBadge([s2 EXCEPT !.stats = ZeroStats])

\* The body of the overlay engine's MutationObserver callback (isEnabled holds).
MutationCallback(st, b) ==
  LET newFields == FieldsOf(b, TRUE)
      removedFields == FieldsOf(b, FALSE)
      s1 == RemoveFields(st, removedFields)
  IN IF newFields # <<>> THEN ScheduleRescan(s1, newFields)
     ELSE IF removedFields # <<>> THEN reconcileStats(updateBadge(s1))
     ELSE s1

\* The debounced pass without its updateBadge call.
RescanPass_Silent(st, newFields, att, vd) ==
  reconcileStats(RescanFields(st, newFields, att, vd))

\* The debounced classification pass over the fields its closure captured.
RescanPass(st, newFields, att, vd) ==
  reconcileStats(updateBadge(RescanFields(st, newFields, att, vd)))

\* hideTooltip, and the removal of every tooltip element of the document.
HideTooltip(st, i) ==
  [st EXCEPT !.ov[i].tipInDoc = FALSE,
             !.recs = IF st.ov[i].tipInDoc THEN Removed(@) ELSE @]

RemoveTooltips(st) ==
  [st EXCEPT !.ov = [i \in OvIds |-> [@[i] EXCEPT !.tipInDoc = FALSE]],
             !.recs = IF \E i \in OvIds : st.ov[i].tipInDoc THEN Removed(@) ELSE @]

\* handleScrollOrResize: every tooltip leaves the document, and a reposition
\* pass is scheduled.
handleScrollOrResize(st) == repositionOverlays(RemoveTooltips(st))

\* clearTimeout(tooltipTimeoutMap.get(badge)): cancels the badge's latest timer.
ClearTooltipTimer(st, i) == [st EXCEPT !.ov[i].timers = Max0(@)]

\* The mouseenter listener without the clearTimeout before the new timer.
BadgeMouseEnter_NoClear(st, i) ==
  LET s1 == RemoveTooltips(st)
      s2 == [s1 EXCEPT !.ov[i].tipInDoc = TRUE, !.recs = "added"]
  IN [s2 EXCEPT !.ov[i].timers = @ + 1, !.hov = i]

\* The mouseenter listener of a badge.
BadgeMouseEnter(st, i) ==
  LET s1 == RemoveTooltips(st)
      s2 == [s1 EXCEPT !.ov[i].tipInDoc = TRUE, !.recs = "added"]
      s3 == ClearTooltipTimer(s2, i)
  IN [s3 EXCEPT !.ov[i].timers = @ + 1, !.hov = i]

BadgeMouseLeave(st, i) ==
  [HideTooltip(ClearTooltipTimer(st, i), i) EXCEPT !.hov = 0]

Commit(st, en) ==
  /\ st.ok
  /\ isEnabled' = en
  /\ ov' = Collect(st.ov, st.overlayMap, st.tooltipMap)
  /\ overlayMap' = st.overlayMap
  /\ tooltipMap' = st.tooltipMap
  /\ analyzedFields' = st.analyzed
  /\ fieldStats' = st.stats
  /\ hovered' = st.hov
  /\ domObserver' = st.domObserver
  /\ domObserving' = st.domObserving
  /\ reconcileInterval' = st.reconcileInterval
  /\ reconcileTimers' = st.reconcileTimers
  /\ rescanTimeout' = st.rescanTimeout
  /\ rescanQ' = st.rescanQ
  /\ repositionTimeout' = st.repositionTimeout
  /\ reposTimers' = st.reposTimers
  /\ scrollListenersAttached' = st.scroll
  /\ badgeWatched' = badgeWatched
  /\ lastReport' = IF badgeWatched /\ st.sent # <<>>
                   THEN <<st.sent[Len(st.sent)]>> ELSE lastReport
  /\ WsObserve(st.recs)

\* ------------------------------------------------- overlay engine: actions
\* chrome.storage.local.get callback, no lastError.
LoadOk(v, vd) ==
  /\ loadPending
  /\ loadPending' = FALSE
  /\ Commit(IF v THEN EnableEngine(Cur, attached, vd) ELSE Cur, v)
  /\ UNCHANGED attached

\* chrome.storage.local.get callback with lastError: only logs.
LoadFail ==
  /\ loadPending
  /\ loadPending' = FALSE
  /\ Commit(Cur, isEnabled)
  /\ UNCHANGED attached

\* The body of the chrome.storage.onChanged listener for
\* autofillDetectorEnabled; en is isEnabled, v is (newValue !== false).
OnEnabledChanged(st, en, v, att, vd) ==
  IF v = en THEN st
  ELSE IF v THEN EnableEngine(st, att, vd)
  ELSE DisableEngine(st, att)

StorageChanged(v, vd) ==
  /\ Commit(OnEnabledChanged(Cur, isEnabled, v, attached, vd), v)
  /\ UNCHANGED <<attached, loadPending>>

\* A page task adds and removes fields; the observer callback, when an
\* observer is connected, handles the batch.
PageMutation(b) ==
  /\ b # <<>>
  /\ attached' = AfterBatch(attached, b)
  /\ LET recs == IF FieldsOf(b, TRUE) # <<>> THEN "added" ELSE "removed"
         st == [Cur EXCEPT !.recs = recs]
     IN IF domObserving > 0
        THEN Commit(IF isEnabled THEN MutationCallback(st, b) ELSE st,
                    isEnabled)
        ELSE Commit(st, isEnabled)
  /\ UNCHANGED loadPending

\* The fields the oldest pending rescan timer will classify; the pass reads
\* the verdict of no other field.
DueFields == IF rescanQ = <<>> THEN {} ELSE Range(Head(rescanQ))

\* The oldest pending rescan timer fires.
RescanFires(vd) ==
  /\ rescanQ # <<>>
  /\ Commit(RescanPass([Cur EXCEPT !.rescanQ = Tail(@),
                                   !.rescanTimeout = IF Len(rescanQ) = 1 THEN "dead" ELSE @],
                        Head(rescanQ), attached, vd),
            isEnabled)
  /\ UNCHANGED <<attached, loadPending>>

\* The periodic interval fires.
ReconcileTick ==
  /\ reconcileTimers > 0
  /\ Commit(reconcileStats(Cur), isEnabled)
  /\ UNCHANGED <<attached, loadPending>>

\* A script of the page removes the overlay element i from the document; the
\* engine's observer callback finds no form field among the removed nodes.
ExternalRemove(i) ==
  /\ ov[i].inDoc
  /\ Commit([Cur EXCEPT !.ov[i].inDoc = FALSE, !.recs = "removed"], isEnabled)
  /\ UNCHANGED <<attached, loadPending>>

\* handleScrollOrResize
ScrollOrResize ==
  /\ scrollListenersAttached
  /\ Commit(handleScrollOrResize(Cur), isEnabled)
  /\ UNCHANGED <<attached, loadPending>>

\* The reposition timer fires; zero are the fields whose rectangle has no
\* width or no height at that moment.
RepositionFires(zero) ==
  /\ reposTimers > 0
  /\ Commit(RepositionPass([Cur EXCEPT !.reposTimers = @ - 1,
                                        !.repositionTimeout = IF reposTimers = 1 THEN "dead" ELSE @],
                            attached, zero),
            isEnabled)
  /\ UNCHANGED <<attached, loadPending>>

\* The pointer enters the badge of an overlay in the document.
MouseEnter(i) ==
  /\ hovered = 0
  /\ ov[i].inDoc
  /\ Commit(BadgeMouseEnter(Cur, i), isEnabled)
  /\ UNCHANGED <<attached, loadPending>>

\* The pointer leaves the badge it is over.
MouseLeave ==
  /\ hovered # 0
  /\ Commit(BadgeMouseLeave(Cur, hovered), isEnabled)
  /\ UNCHANGED <<attached, loadPending>>

\* An auto-hide timer of a badge fires.
TooltipTimerFires(i) ==
  /\ ov[i].timers > 0
  /\ Commit(HideTooltip([Cur EXCEPT !.ov[i].timers = @ - 1], i), isEnabled)
  /\ UNCHANGED <<attached, loadPending>>

OvNext ==
  \/ \E vd \in Verdicts(attached) : LoadOk(TRUE, vd)
  \/ LoadOk(FALSE, NoVerdict)
  \/ LoadFail
  \/ \E vd \in Verdicts(attached) : StorageChanged(TRUE, vd)
  \/ StorageChanged(FALSE, NoVerdict)
  \/ \E b \in Batches(attached, MaxBatch) : PageMutation(b)
  \/ \E vd \in Verdicts(attached \cap DueFields) : RescanFires(vd)
  \/ ReconcileTick
  \/ ScrollOrResize
  \/ RepositionFires({})
  \/ \E i \in OvIds : MouseEnter(i)
  \/ MouseLeave
  \/ \E i \in OvIds : TooltipTimerFires(i)

\* ------------------------------------------------- word scanner: actions
\* chrome.storage.local.get callback of initWordScanner, no lastError;
\* wl is the stored list: "keep" when it is unset or no array.
WsLoadOk(en, wl) ==
  /\ wsLoadPending
  /\ wsLoadPending' = FALSE
  /\ LET w1 == [CurW EXCEPT !.enabled = en,
                            !.words = IF wl = "keep" THEN @ ELSE wl]
         w2 == IF en THEN runWordScannerWhenReady(w1, readyState, nodeAttached) ELSE w1
     IN w2.listeners <= MaxListeners /\ CommitW(w2)
  /\ UNCHANGED <<ovVars, readyState, nodeAttached>>

WsLoadFail ==
  /\ wsLoadPending
  /\ wsLoadPending' = FALSE
  /\ CommitW(CurW)
  /\ UNCHANGED <<ovVars, readyState, nodeAttached>>

\* A listener that adopts the new list without scanning.
OnWordsChanged_NoRescan(w, wc, natt) ==
  IF wc = "none" THEN w ELSE [w EXCEPT !.words = wc]

\* The word-list part of the change listener.
OnWordsChanged(w, wc, natt) ==
  IF wc = "none" THEN w
  ELSE LET w1 == [w EXCEPT !.words = wc]
       IN IF w1.enabled THEN scanForForbiddenWords(w1, natt) ELSE w1

\* The toggle part of the change listener; v is (newValue === true).
OnToggleChanged(w, v, rs, natt) ==
  IF v = w.enabled THEN w
  ELSE LET w1 == [w EXCEPT !.enabled = v]
       IN IF v THEN runWordScannerWhenReady(w1, rs, natt)
          ELSE updateWordScannerBadge(
                 removeWordHighlights(stopWordScannerObserver(w1), natt))

\* chrome.storage.onChanged listener of the scanner: wc is the new word list
\* ("none": the key did not change or is no array), ec the new toggle value.
WsStorageChanged(wc, ec) ==
  /\ ~(wc = "none" /\ ec = "none")
  /\ LET w1 == OnWordsChanged(CurW, wc, nodeAttached)
         w2 == IF ec = "none" THEN w1
               ELSE OnToggleChanged(w1, ec = "on", readyState, nodeAttached)
     IN w2.listeners <= MaxListeners /\ CommitW(w2)
  /\ UNCHANGED <<ovVars, wsLoadPending, readyState, nodeAttached>>

RECURSIVE RunListeners(_, _, _)
RunListeners(w, k, natt) ==
  IF k = 0 THEN w
  ELSE RunListeners(startWordScannerObserver(scanForForbiddenWords(w, natt)), k - 1, natt)

\* DOMContentLoaded: every listener registered while loading runs.
DOMContentLoaded ==
  /\ readyState = "loading"
  /\ readyState' = "complete"
  /\ CommitW([RunListeners(CurW, dclListeners, nodeAttached) EXCEPT !.listeners = 0])
  /\ UNCHANGED <<ovVars, wsLoadPending, nodeAttached>>

\* A page task edits nodes: attaches one, detaches one, or changes its text.
NodeOps == [op : {"add", "rem", "chg"}, n : Nodes]
NodeOpValid(natt, o) ==
  CASE o.op = "add" -> o.n \notin natt
    [] o.op = "rem" -> o.n \in natt
    [] OTHER -> TRUE
NodesAfter(natt, o) ==
  CASE o.op = "add" -> natt \cup {o.n}
    [] o.op = "rem" -> natt \ {o.n}
    [] OTHER -> natt
\* A change of character data replaces the text by the next kind of text; text
\* inside a highlight is left alone here.
NextText(t) == IF t = "clean" THEN "a" ELSE IF t = "a" THEN "b" ELSE IF t = "b" THEN "clean" ELSE t
TextAfter(txt, o) ==
  IF o.op = "chg" THEN [txt EXCEPT ![o.n] = NextText(@)] ELSE txt
\* What the record of the operation contributes to the accumulator.
TargetsOf(natt, o) ==
  CASE o.op = "add" -> {o.n}
    [] o.op = "chg" -> IF o.n \notin natt THEN {}
                       ELSE IF IsTextNode(o.n) THEN {ParentOf(o.n)} ELSE {o.n}
    [] OTHER -> {}
\* The operation leaves a record for an observer of document.body.
Observed(natt, o) == o.op # "chg" \/ o.n \in natt

WsPageMutation(o) ==
  /\ NodeOpValid(nodeAttached, o)
  /\ (o.op = "chg" => nodeText[o.n] \in Texts)
  /\ nodeAttached' = NodesAfter(nodeAttached, o)
  /\ LET w == [CurW EXCEPT !.text = TextAfter(@, o)]
     IN IF wsConnected /\ Observed(nodeAttached, o)
        THEN CommitW(WordScannerCallback(w, TargetsOf(nodeAttached, o)))
        ELSE CommitW(w)
  /\ UNCHANGED <<ovVars, wsLoadPending, readyState>>

\* A pending incremental-rescan timer fires.
WsTimerFires ==
  /\ wsTimers > 0
  /\ CommitW(WordScannerPass([CurW EXCEPT !.timers = @ - 1,
                                           !.handle = IF wsTimers = 1 THEN "dead" ELSE @],
                              nodeAttached))
  /\ UNCHANGED <<ovVars, wsLoadPending, readyState, nodeAttached>>

WsNext ==
  \/ \E en \in BOOLEAN, wl \in {"keep"} \cup WordLists : WsLoadOk(en, wl)
  \/ WsLoadFail
  \/ \E wc \in {"none"} \cup WordLists, ec \in {"none", "on", "off"} : WsStorageChanged(wc, ec)
  \/ DOMContentLoaded
  \/ \E o \in NodeOps : WsPageMutation(o)
  \/ WsTimerFires

\* ------------------------------------------------- word scanner: one container, by character
\* Text is a sequence of characters: letters in either case, and a character
\* that is no word character.
MaxTextLen == 4
Chars == {"a", "A", "b", "."}
IsWordChar(c) == c # "."
Lower(c) == IF c = "A" THEN "a" ELSE c

RECURSIVE StringsUpTo(_)
StringsUpTo(n) ==
  IF n = 0 THEN {<<>>}
  ELSE LET shorter == StringsUpTo(n - 1)
       IN shorter \cup {Append(t, c) : t \in {u \in shorter : Len(u) = n - 1}, c \in Chars}

\* Word lists as the popup stores them (trimmed, lower case, no empty word);
\* a word may begin or end with a character that is no word character.
PatternLists ==
  { <<>>,
    << <<"a">> >>,
    << <<"a", "b">> >>,
    << <<"a">>, <<"a", "b">> >>,
    << <<".", "a">> >>,
    << <<"a", ".">> >>,
    << <<"b">>, <<".", "a">> >> }

\* \b at index i of t (0 .. Len(t)): exactly one side is a word character.
AtBoundary(t, i) ==
  (i > 0 /\ IsWordChar(t[i])) # (i < Len(t) /\ IsWordChar(t[i + 1]))

\* The escaped word w read literally at index i, ignoring case.
WordAt(t, i, w) ==
  /\ i + Len(w) <= Len(t)
  /\ \A k \in 1..Len(w) : Lower(t[i + k]) = Lower(w[k])

\* \b(w1|w2|...)\b tried at index i: the length of the first alternative that
\* fits between two boundaries, 0 when none does.
MatchLenAt(t, i, words) ==
  LET fits == {j \in 1..Len(words) :
                 WordAt(t, i, words[j]) /\ AtBoundary(t, i + Len(words[j]))}
  IN IF ~AtBoundary(t, i) \/ fits = {} THEN 0 ELSE Len(words[Min(fits)])

\* pattern.exec(t) with pattern.lastIndex = from: the leftmost match.
PatternExec(t, from, words) ==
  LET at == {i \in from..Len(t) : MatchLenAt(t, i, words) > 0}
  IN IF at = {} THEN [index |-> -1, len |-> 0]
     ELSE [index |-> Min(at), len |-> MatchLenAt(t, Min(at), words)]

TextNode(s) == [span |-> FALSE, s |-> s, tracked |-> FALSE]
HighlightSpan(s) == [span |-> TRUE, s |-> s, tracked |-> TRUE]
Slice(t, from, to) == SubSeq(t, from + 1, to)

\* The fragments highlightForbiddenWordsInNode builds from index lastIndex on.
RECURSIVE Fragments(_, _, _)
Fragments(t, lastIndex, words) ==
  LET match == PatternExec(t, lastIndex, words)
  IN IF match.index < 0
     THEN IF lastIndex < Len(t) THEN <<TextNode(Slice(t, lastIndex, Len(t)))>> ELSE <<>>
     ELSE (IF match.index > lastIndex
           THEN <<TextNode(Slice(t, lastIndex, match.index))>> ELSE <<>>)
          \o <<HighlightSpan(Slice(t, match.index, match.index + match.len))>>
          \o Fragments(t, match.index + match.len, words)

\* highlightForbiddenWordsInNode that loses the text after the last match.
highlightForbiddenWordsInNode_DropTail(doc, k, words) ==
  LET all == Fragments(doc[k].s, 0, words)
      fragments == IF Len(all) > 1 /\ ~all[Len(all)].span
                   THEN SubSeq(all, 1, Len(all) - 1) ELSE all
  IN IF fragments = <<>> THEN doc
     ELSE SubSeq(doc, 1, k - 1) \o fragments \o SubSeq(doc, k + 1, Len(doc))

\* highlightForbiddenWordsInNode(textNode, pattern) for the k-th child.
highlightForbiddenWordsInNode(doc, k, words) ==
  LET fragments == Fragments(doc[k].s, 0, words)
  IN IF fragments = <<>> THEN doc
     ELSE SubSeq(doc, 1, k - 1) \o fragments \o SubSeq(doc, k + 1, Len(doc))

\* The walker's filter for the k-th child: a text node whose parent is the
\* container (text inside a span has the span as parent) and that the
\* pattern matches.
AcceptNode(doc, k, words) ==
  ~doc[k].span /\ PatternExec(doc[k].s, 0, words).index >= 0

\* The walk of a scan: every accepted text node is highlighted.  The nodes
\* are collected before any is replaced, so the order does not matter.
RECURSIVE HighlightAccepted(_, _, _)
HighlightAccepted(doc, k, words) ==
  IF k = 0 THEN doc
  ELSE HighlightAccepted(IF AcceptNode(doc, k, words)
                         THEN highlightForbiddenWordsInNode(doc, k, words) ELSE doc,
                         k - 1, words)

\* removeWordHighlights that leaves the orphans in place.
removeWordHighlightsIn_TrackedOnly(doc) ==
  [k \in DOMAIN doc |-> IF doc[k].tracked THEN TextNode(doc[k].s) ELSE doc[k]]

\* removeWordHighlights on the container: tracked spans with a parent, then
\* every remaining element of the highlight class, become text nodes; adjacent
\* text nodes are not merged.
removeWordHighlightsIn(doc) == [k \in DOMAIN doc |-> TextNode(doc[k].s)]

\* scanForForbiddenWords as far as the container is concerned.
scanForForbiddenWordsIn(doc, words) ==
  LET clean == removeWordHighlightsIn(doc)
  IN IF words = <<>> THEN clean ELSE HighlightAccepted(clean, Len(clean), words)

RECURSIVE Concat(_)
Concat(doc) == IF doc = <<>> THEN <<>> ELSE Head(doc).s \o Concat(Tail(doc))

SpansOf(doc) == {k \in DOMAIN doc : doc[k].span}
TrackedIn(doc) == {k \in DOMAIN doc : doc[k].tracked}
Summary(op) ==
  [op |-> op, tracked |-> Cardinality(TrackedIn(hlDoc)),
   orphans |-> Cardinality(SpansOf(hlDoc) \ TrackedIn(hlDoc)), gone |-> hlGone,
   nodes |-> Len(hlDoc)]

\* highlightForbiddenWordsInNode is applied to the k-th child, a text node.
HlHighlight(k) ==
  /\ k \in DOMAIN hlDoc /\ ~hlDoc[k].span /\ hlWords # <<>>
  /\ hlDoc' = highlightForbiddenWordsInNode(hlDoc, k, hlWords)
  /\ hlLast' = Summary("highlight")
  /\ UNCHANGED <<ovVars, wsVars, fnVars, hlWords, hlGone>>

HlRemove ==
  /\ hlDoc' = removeWordHighlightsIn(hlDoc)
  /\ hlGone' = 0
  /\ hlLast' = Summary("remove")
  /\ UNCHANGED <<ovVars, wsVars, fnVars, hlWords>>

HlScan ==
  /\ hlDoc' = scanForForbiddenWordsIn(hlDoc, hlWords)
  /\ hlGone' = 0
  /\ hlLast' = Summary("scan")
  /\ UNCHANGED <<ovVars, wsVars, fnVars, hlWords>>

\* A page script replaces the k-th child, a tracked span, by a copy of it:
\* the copy is an orphan, the tracked span has no parent any more.
HlPageCopies(k) ==
  /\ k \in TrackedIn(hlDoc)
  /\ hlDoc' = [hlDoc EXCEPT ![k].tracked = FALSE]
  /\ hlGone' = hlGone + 1
  /\ hlLast' = Summary("page")
  /\ UNCHANGED <<ovVars, wsVars, fnVars, hlWords>>

\* A page script removes the k-th child, a span, from the document.
HlPageDetaches(k) ==
  /\ k \in SpansOf(hlDoc)
  /\ hlDoc' = SubSeq(hlDoc, 1, k - 1) \o SubSeq(hlDoc, k + 1, Len(hlDoc))
  /\ hlGone' = hlGone + (IF hlDoc[k].tracked THEN 1 ELSE 0)
  /\ hlLast' = Summary("page")
  /\ UNCHANGED <<ovVars, wsVars, fnVars, hlWords>>

HlNext ==
  \/ \E k \in 1..MaxTextLen : HlHighlight(k)
  \/ HlRemove
  \/ HlScan
  \/ \E k \in 1..MaxTextLen : HlPageCopies(k)
  \/ \E k \in 1..MaxTextLen : HlPageDetaches(k)

\* No function call is looked at.
FnIdle == callArgs = [fn |-> "none"] /\ callResult = [t |-> "none"]

\* No container is looked at.
HlIdle ==
  /\ hlWords = <<>> /\ hlDoc = <<>> /\ hlGone = 0
  /\ hlLast = [op |-> "none", tracked |-> 0, orphans |-> 0, gone |-> 0, nodes |-> 0]

\* ------------------------------------------------- specifications
\* content.js after its top-level code ran: the load callback is outstanding.
OvStart ==
  /\ attached \in SUBSET Fields
  /\ ov = [i \in OvIds |-> FreeOv]
  /\ hovered = 0
  /\ loadPending = TRUE
  /\ isEnabled = TRUE
  /\ fieldStats = ZeroStats
  /\ analyzedFields = [f \in Fields |-> "absent"]
  /\ overlayMap = [f \in Fields |-> 0]
  /\ tooltipMap = [f \in Fields |-> 0]
  /\ domObserver = "null" /\ domObserving = 0
  /\ reconcileInterval = "null" /\ reconcileTimers = 0
  /\ rescanTimeout = "dead" /\ rescanQ = <<>>
  /\ repositionTimeout = "dead" /\ reposTimers = 0
  /\ scrollListenersAttached = FALSE

\* The same, the reports to the badge consumer not being recorded.
OvInit ==
  /\ OvStart
  /\ badgeWatched = FALSE /\ lastReport = <<>>

\* wordscanner.js after initWordScanner ran: the load callback is outstanding.
WsStart ==
  /\ dclListeners = 0
  /\ wordScannerEnabled = FALSE
  /\ forbiddenWords = "A"
  /\ wordScannerObserver = "null" /\ wsConnected = FALSE
  /\ wordScannerRescanTimeout = "dead" /\ wsTimers = 0
  /\ pendingMutationTargets = {}
  /\ wordScannerHighlights = {}
  /\ wsLastScan = [roots |-> {}, observing |-> FALSE]

\* The word scanner whose stored state could not be loaded and that no change
\* notification reaches: it stays off.
WsIdle ==
  /\ WsStart
  /\ wsLoadPending = FALSE
  /\ readyState = "complete"
  /\ nodeAttached = {}
  /\ nodeText = [n \in Nodes |-> "clean"]
  /\ HlIdle /\ FnIdle

WsInit ==
  /\ WsStart
  /\ wsLoadPending = TRUE
  /\ readyState \in {"loading", "complete"}
  /\ nodeAttached \in SUBSET Nodes
  /\ nodeText \in [Nodes -> Texts]
  /\ HlIdle /\ FnIdle

\* content.js whose stored state could not be loaded, on a page without fields
\* that no change notification reaches: nothing of it ever runs.
OvIdle ==
  /\ OvInit
  /\ attached = {}

\* The overlay engine alone.
Init == OvInit /\ WsIdle

Spec == Init /\ [][OvNext]_vars

\* The word scanner alone.
InitWS == OvIdle /\ WsInit

SpecWS == InitWS /\ [][WsNext]_vars

\* Both scripts on one page that has a single form field and a single text
\* node, and whose badges the pointer never enters.
OneField(b) == \A k \in DOMAIN b : b[k].f = 1

PageInit ==
  /\ OvInit /\ attached \subseteq {1}
  /\ WsInit /\ nodeAttached \subseteq {1} /\ nodeText[2] = "clean"

PageNext ==
  \/ \E vd \in Verdicts(attached) : LoadOk(TRUE, vd)
  \/ LoadOk(FALSE, NoVerdict)
  \/ LoadFail
  \/ \E vd \in Verdicts(attached) : StorageChanged(TRUE, vd)
  \/ StorageChanged(FALSE, NoVerdict)
  \/ \E b \in {c \in Batches(attached, MaxBatch) : OneField(c)} : PageMutation(b)
  \/ \E vd \in Verdicts(attached \cap DueFields) : RescanFires(vd)
  \/ ReconcileTick
  \/ ScrollOrResize
  \/ RepositionFires({})
  \/ \E en \in BOOLEAN, wl \in {"keep", "A", "empty"} : WsLoadOk(en, wl)
  \/ WsLoadFail
  \/ \E wc \in {"none", "A", "empty"}, ec \in {"none", "on", "off"} : WsStorageChanged(wc, ec)
  \/ DOMContentLoaded
  \/ \E o \in {c \in NodeOps : c.n = 1} : WsPageMutation(o)
  \/ WsTimerFires

SpecPage == PageInit /\ [][PageNext]_vars
\* reconcileStats alone: the interval is running over any population of
\* overlay elements in the document, and the counters have drifted from it to
\* any value.
StatsDomain == [high : -1..MaxOverlays, medium : -1..MaxOverlays,
                low : -1..MaxOverlays, total : -1..MaxOverlays]

OverlayDomain ==
  {FreeOv} \cup {[field |-> 1, cls |-> c, inDoc |-> TRUE, tipInDoc |-> FALSE, timers |-> 0,
                     hidden |-> FALSE] :
                   c \in Levels}

ReconcileInit ==
  /\ attached = {1}
  /\ ov \in [OvIds -> OverlayDomain]
  /\ hovered = 0
  /\ loadPending = FALSE
  /\ isEnabled = TRUE
  /\ fieldStats \in StatsDomain /\ fieldStats # CountOverlays(ov)
  /\ analyzedFields = [f \in Fields |-> "absent"]
  /\ overlayMap = [f \in Fields |-> 0]
  /\ tooltipMap = [f \in Fields |-> 0]
  /\ domObserver = "null" /\ domObserving = 0
  /\ reconcileInterval = "set" /\ reconcileTimers = 1
  /\ rescanTimeout = "dead" /\ rescanQ = <<>>
  /\ repositionTimeout = "dead" /\ reposTimers = 0
  /\ scrollListenersAttached = FALSE
  /\ badgeWatched = FALSE /\ lastReport = <<>>
  /\ WsIdle

SpecReconcile == ReconcileInit /\ [][ReconcileTick]_vars

\* The overlay engine on a page with a single form field whose badges the
\* pointer never enters, and a script that removes overlays; the reconciliation
\* interval, while it is set, keeps firing (setInterval).
DriftInit == OvInit /\ attached \subseteq {1} /\ WsIdle

DriftNext ==
  \/ \E vd \in Verdicts(attached) : LoadOk(TRUE, vd)
  \/ LoadOk(FALSE, NoVerdict)
  \/ LoadFail
  \/ \E vd \in Verdicts(attached) : StorageChanged(TRUE, vd)
  \/ StorageChanged(FALSE, NoVerdict)
  \/ \E b \in {c \in Batches(attached, MaxBatch) : OneField(c)} : PageMutation(b)
  \/ \E vd \in Verdicts(attached \cap DueFields) : RescanFires(vd)
  \/ ReconcileTick
  \/ ScrollOrResize
  \/ RepositionFires({})
  \/ \E i \in OvIds : ExternalRemove(i)

SpecDrift == DriftInit /\ [][DriftNext]_vars /\ WF_vars(ReconcileTick)

\* The overlay engine on a page with a single form field that may lose its
\* size, with the pointer and with scrolling.
ScrollInit == OvInit /\ attached \subseteq {1} /\ WsIdle

ScrollNext ==
  \/ \E vd \in Verdicts(attached) : LoadOk(TRUE, vd)
  \/ LoadOk(FALSE, NoVerdict)
  \/ LoadFail
  \/ \E vd \in Verdicts(attached) : StorageChanged(TRUE, vd)
  \/ StorageChanged(FALSE, NoVerdict)
  \/ \E b \in {c \in Batches(attached, MaxBatch) : OneField(c)} : PageMutation(b)
  \/ \E vd \in Verdicts(attached \cap DueFields) : RescanFires(vd)
  \/ ReconcileTick
  \/ ScrollOrResize
  \/ \E zero \in SUBSET attached : RepositionFires(zero)
  \/ \E i \in OvIds : MouseEnter(i)
  \/ MouseLeave
  \/ \E i \in OvIds : TooltipTimerFires(i)

SpecScroll == ScrollInit /\ [][ScrollNext]_vars

\* The overlay engine with the report that the badge consumer got last.
ReportsInit ==
  /\ OvStart
  /\ badgeWatched = TRUE /\ lastReport = <<>>
  /\ WsIdle

ReportsNext == OvNext

SpecReports == ReportsInit /\ [][ReportsNext]_vars

\* The same page, where a pending auto-hide timer of a badge fires in the end
\* (setTimeout of 5 seconds).
HoverInit == ScrollInit

HoverNext == ScrollNext

SpecHover ==
  HoverInit /\ [][HoverNext]_vars /\ \A i \in OvIds : WF_vars(TooltipTimerFires(i))

\* The highlight functions alone, on a container that holds one text node,
\* with neither script doing anything else.
HlInit ==
  /\ OvIdle
  /\ WsStart /\ wsLoadPending = FALSE /\ readyState = "complete"
  /\ nodeAttached = {} /\ nodeText = [n \in Nodes |-> "clean"]
  /\ hlWords \in PatternLists
  /\ hlDoc \in {<<TextNode(t)>> : t \in StringsUpTo(MaxTextLen)}
  /\ hlGone = 0
  /\ hlLast = [op |-> "none", tracked |-> 0, orphans |-> 0, gone |-> 0, nodes |-> 1]
  /\ FnIdle

SpecHighlight == HlInit /\ [][HlNext]_vars

\* ------------------------------------------------- properties
OverlaysOf(o, f) == {i \in OvIds : o[i].inDoc /\ o[i].field = f}

\* C1 (overlay identity): the document holds at most one overlay element per
\* field, and two createOverlay calls in a row for one field, whatever the
\* state they start from, leave exactly one overlay element of that field in
\* the document.
C1_OverlayIdentity ==
  /\ \A f \in Fields : Cardinality(OverlaysOf(ov, f)) <= 1
  /\ \A f \in Fields, l1, l2 \in Levels :
       LET twice == createOverlay(createOverlay(Cur, f, l1), f, l2)
       IN twice.ok => Cardinality(OverlaysOf(twice.ov, f)) = 1

\* A field whose overlay replaced an earlier one: the earlier element is out
\* of the document (its tooltip or timer keeps it alive), the later one is in.
C1_Witness ==
  \E f \in Fields, i \in OvIds :
    /\ ov[i].field = f /\ ~ov[i].inDoc
    /\ overlayMap[f] \notin {0, i}
    /\ ov[overlayMap[f]].inDoc /\ ov[overlayMap[f]].field = f

\* The change listener turns the engine off in this step.
DisableStep == isEnabled /\ ~isEnabled' /\ loadPending' = loadPending

C3_CancellationOnDisable ==
  [][DisableStep =>
       /\ reposTimers' = 0
       /\ rescanQ' = <<>>
       /\ reconcileTimers' = 0
       /\ \A i \in OvIds : ov'[i].timers = 0]_vars
\* C4 (reconcileStats): from any counters and any overlay population,
\* reconcileStats leaves the counters equal to the per-class and total counts
\* of the overlay elements in the document and leaves the elements alone; it
\* sends one report (of these counts) when the counters differed in any
\* component and none when they matched.
C4_ReconcileStats ==
  LET actual == CountOverlays(ov)
      r == reconcileStats(Cur)
  IN /\ r.stats = actual
     /\ r.ov = ov
     /\ r.sent = IF fieldStats.high # actual.high \/ fieldStats.medium # actual.medium
                    \/ fieldStats.low # actual.low \/ fieldStats.total # actual.total
                 THEN <<actual>> ELSE <<>>

\* Reconciliation has run over one overlay of each class: the counters match.
C4_Witness ==
  /\ fieldStats = [high |-> 1, medium |-> 1, low |-> 1, total |-> 3]
  /\ fieldStats = CountOverlays(ov)

\* C5 (fieldStats equals the displayed overlays): in every state the counters
\* equal the per-class and total counts of the overlay elements in the document.
C5_StatsMatchOverlays == fieldStats = CountOverlays(ov)

NoEntries(f) ==
  overlayMap[f] = 0 /\ tooltipMap[f] = 0 /\ analyzedFields[f] = "absent"

\* The connected observer of the enabled engine handles a batch in this step
\* through which field f leaves the document.
RemovalStep(f) ==
  isEnabled /\ domObserving > 0 /\ f \in attached /\ f \notin attached'

\* C6 (removal handling): the callback that handles the removal of a field
\* takes its overlay and its tooltip out of the document, leaves no auto-hide
\* timer of its badge pending, deletes its entries in overlayMap, tooltipMap
\* and analyzedFields, and its removal loop decrements by one the total and
\* the counter of the risk level the field was last displayed with.
C6_RemovalHandling ==
  [][\A f \in Fields : RemovalStep(f) =>
       /\ \A i \in OvIds : ov'[i].field = f => ~ov'[i].inDoc
       /\ \A i \in OvIds : i \in {overlayMap[f], tooltipMap[f]} =>
                             ~ov'[i].tipInDoc /\ ov'[i].timers = 0
       /\ NoEntries(f)'
       /\ analyzedFields[f] \in Levels =>
            RemoveField(Cur, f).stats = Bump(fieldStats, analyzedFields[f], -1)]_vars

\* C7 (no identity held after removal): once the removal of a field has been
\* handled, and from then on for as long as the field stays outside the
\* document, it is a key of none of overlayMap, tooltipMap and analyzedFields.
C7_NoIdentityHeld ==
  [][\A f \in Fields :
       (f \notin attached' /\ (RemovalStep(f) \/ (f \notin attached /\ NoEntries(f))))
         => NoEntries(f)']_vars

\* C8 (addition batching loses no field): while the engine is on and observing
\* and no classification pass is pending, every field of the document has
\* been classified.
C8_NoFieldLost ==
  (isEnabled /\ domObserving > 0 /\ rescanQ = <<>>)
    => \A f \in attached : analyzedFields[f] # "absent"
\* The debounced pass of the word scanner runs in this step: a timer went
\* without the scanner being switched.
PassStep == wsTimers' < wsTimers /\ wordScannerEnabled' = wordScannerEnabled

\* The nodes the page attaches in this step, and the attached nodes whose
\* character data the page changes.
PageAdded == nodeAttached' \ nodeAttached
PageChanged ==
  {IF IsTextNode(n) THEN ParentOf(n) ELSE n :
     n \in {k \in nodeAttached : nodeText[k] \in Texts /\ nodeText'[k] = NextText(nodeText[k])}}

\* C9 (word-scanner mutation batching): what the connected observer of the
\* enabled scanner sees added or changed joins the pending targets, with a
\* pass scheduled; targets leave the accumulator only when the pass runs or
\* the scanner is switched off; the pass scans exactly the accumulated
\* targets with the observer disconnected, empties the accumulator, and
\* leaves the observer connected exactly if the scanner is enabled.
C9_MutationBatching ==
  [][/\ (wordScannerEnabled /\ wsConnected /\ PageAdded \cup PageChanged # {}) =>
          /\ pendingMutationTargets \cup PageAdded \cup PageChanged
                \subseteq pendingMutationTargets'
          /\ wsTimers' > 0
     /\ ~(pendingMutationTargets \subseteq pendingMutationTargets') =>
          PassStep \/ (wordScannerEnabled /\ ~wordScannerEnabled')
     /\ (PassStep /\ pendingMutationTargets # {}) =>
          /\ wsLastScan' = [roots |-> pendingMutationTargets, observing |-> FALSE]
          /\ pendingMutationTargets' = {}
          /\ wsConnected' = wordScannerEnabled']_vars

\* A pass has scanned targets that two batches had accumulated, highlighted a
\* forbidden word, and the observer is connected again.
C9_Witness ==
  /\ Cardinality(wsLastScan.roots) >= 2
  /\ ~wsLastScan.observing
  /\ pendingMutationTargets = {}
  /\ wordScannerHighlights # {}
  /\ wordScannerEnabled /\ wsConnected

\* C10 (single-slot debounce): each engine has at most one pending debounce
\* timer (rescan, reposition, word-scanner rescan), and a pending timer is the
\* one the engine's handle names.
C10_SingleSlotDebounce ==
  /\ Len(rescanQ) <= 1 /\ (rescanQ # <<>> <=> rescanTimeout = "live")
  /\ reposTimers <= 1 /\ (reposTimers > 0 <=> repositionTimeout = "live")
  /\ wsTimers <= 1 /\ (wsTimers > 0 <=> wordScannerRescanTimeout = "live")

\* All three debounce timers are pending at once, the word scanner's after
\* a second batch arrived while it was pending.
C10_Witness ==
  /\ Len(rescanQ) = 1 /\ reposTimers = 1 /\ wsTimers = 1
  /\ Cardinality(pendingMutationTargets) >= 2

\* The attached nodes whose text the pending targets stand for: a target that
\* is the node itself, or the parent element of a bare text node.
TextOfTargets(targets) ==
  {n \in nodeAttached : n \in targets \/ (IsTextNode(n) /\ ParentOf(n) \in targets)}

\* C11 (eventual consistency of highlights): when the debounced pass of the
\* enabled scanner has run over its pending targets, no attached text that
\* reached the accumulator (as an added element, as a directly added text
\* node, or through a character-data change) still holds an unhighlighted
\* forbidden word.
C11_EventualHighlights ==
  [][(PassStep /\ wordScannerEnabled /\ wsConnected) =>
       \A n \in TextOfTargets(pendingMutationTargets) :
          ~Matches(forbiddenWords', nodeText'[n])]_vars

\* C12 (full-rescan idempotence): a second full scan in succession leaves the
\* same number of highlight spans, and the same number of tracked spans, as
\* the first one.
C12_RescanIdempotent ==
  LET once == scanForForbiddenWordsIn(hlDoc, hlWords)
      twice == scanForForbiddenWordsIn(once, hlWords)
  IN /\ Cardinality(SpansOf(twice)) = Cardinality(SpansOf(once))
     /\ Cardinality(TrackedIn(twice)) = Cardinality(TrackedIn(once))

\* C13 (highlight round-trip): highlighting a text node keeps the container's
\* concatenated text, and removing the highlights afterwards leaves no span
\* and the same text, character for character.
C13_HighlightRoundTrip ==
  \A k \in DOMAIN hlDoc :
     (~hlDoc[k].span /\ hlWords # <<>>) =>
        LET marked == highlightForbiddenWordsInNode(hlDoc, k, hlWords)
            back == removeWordHighlightsIn(marked)
        IN /\ Concat(marked) = Concat(hlDoc)
           /\ Concat(back) = Concat(hlDoc)
           /\ SpansOf(back) = {}

\* Highlights were removed after a text node had been split around two
\* highlighted words; the text nodes that replaced them stay separate.
C13_Witness ==
  /\ hlLast.op = "remove" /\ hlLast.tracked >= 2 /\ hlLast.orphans = 0
  /\ SpansOf(hlDoc) = {} /\ Len(hlDoc) >= 3

\* C15 (removeWordHighlights postcondition): after removeWordHighlights the
\* tracked set is empty and the container holds no highlight span, whether a
\* span was tracked, an orphan, or tracked and without a parent (skipped);
\* each span that was in the container is replaced in place by a text node
\* with the span's text, and the other children are left as they were.
C15_RemoveHighlights ==
  [][hlLast'.op = "remove" =>
       /\ hlGone' = 0 /\ TrackedIn(hlDoc') = {}
       /\ SpansOf(hlDoc') = {}
       /\ Len(hlDoc') = Len(hlDoc)
       /\ \A k \in DOMAIN hlDoc : hlDoc'[k] = TextNode(hlDoc[k].s)]_vars

\* removeWordHighlights has run on a container that held a tracked span and an
\* orphan, while another tracked span had no parent.
C15_Witness ==
  /\ hlLast.op = "remove"
  /\ hlLast.tracked >= 1 /\ hlLast.orphans >= 1 /\ hlLast.gone >= 1
  /\ SpansOf(hlDoc) = {} /\ hlGone = 0

\* C14 (incremental scan isolation): the incremental pass changes text, and
\* tracks spans, only in attached nodes that lie in the subtree of one of its
\* roots; text outside every root, and the text of a root that left the
\* document, are as before.
C14_IncrementalIsolation ==
  [][PassStep =>
       /\ \A n \in Nodes \ TextOfTargets(pendingMutationTargets) :
             nodeText'[n] = nodeText[n]
       /\ wordScannerHighlights' \ wordScannerHighlights
             \subseteq TextOfTargets(pendingMutationTargets)
       /\ wordScannerHighlights \subseteq wordScannerHighlights']_vars

\* A pass ran with two roots: an element that had left the document and holds
\* a forbidden word, which it left alone, and the parent of a text node, whose
\* word it highlighted.
C14_Witness ==
  /\ wordScannerEnabled /\ wsConnected /\ wsTimers = 0
  /\ {1, ParentOf(2)} \subseteq wsLastScan.roots
  /\ 1 \notin nodeAttached /\ Matches(forbiddenWords, nodeText[1])
  /\ 2 \in wordScannerHighlights /\ nodeText[2] \in Marked

\* C16 (full scan observer discipline): a full scan of the enabled scanner
\* makes no write that its own observer records, leaves no highlight from
\* before the scan (every highlight in the document is one of the current
\* list's words, and tracked), reports a count of zero on the empty-list path
\* without highlighting anything, and on return the observer, if there is
\* one, observes again.
C16_FullScanDiscipline ==
  wordScannerEnabled =>
    LET r == scanForForbiddenWords(CurW, nodeAttached)
    IN /\ ~r.seen
       /\ wordScannerObserver = "set" => r.connected
       /\ \A n \in nodeAttached :
             /\ r.text[n] \in Marked => (n \in r.tracked /\ Matches(forbiddenWords, Plain(r.text[n])))
             /\ Plain(r.text[n]) = Plain(nodeText[n])
       /\ forbiddenWords = "empty" =>
             (r.sent = <<0>> /\ \A n \in nodeAttached : r.text[n] \notin Marked)
       /\ forbiddenWords # "empty" =>
             (r.sent = <<Cardinality(r.tracked)>>
              /\ \A n \in nodeAttached : ~Matches(forbiddenWords, r.text[n]))

\* What a full scan with list B leaves: the text holding a word of the default
\* list is plain, the text with a word of B is highlighted and tracked, and the
\* observer observes; no incremental pass has run.
C16_Witness ==
  /\ wordScannerEnabled /\ wordScannerObserver = "set" /\ wsConnected
  /\ forbiddenWords = "B" /\ nodeAttached = Nodes
  /\ nodeText[1] = "a" /\ nodeText[2] = "b*" /\ wordScannerHighlights = {2}
  /\ wsLastScan.roots = {} /\ wsTimers = 0

\* The highlights are those of the list in force after the step, and no other.
HighlightsFollowList ==
  /\ \A n \in nodeAttached :
        nodeText'[n] = (IF Matches(forbiddenWords', Plain(nodeText[n]))
                        THEN Mark(Plain(nodeText[n])) ELSE Plain(nodeText[n]))
  /\ wordScannerHighlights' =
        {n \in nodeAttached : Matches(forbiddenWords', Plain(nodeText[n]))}

WsDisableStep ==
  wordScannerEnabled /\ ~wordScannerEnabled' /\ wsLoadPending' = wsLoadPending

\* C18 (word-scanner disable), the transition: switching the scanner off
\* drops its observer, cancels the pending rescan timer, empties the
\* accumulator, turns every highlight span into plain text, and reports a
\* count of zero.
C18_DisableTransition ==
  [][/\ WsDisableStep =>
          /\ wordScannerObserver' = "null" /\ ~wsConnected'
          /\ wsTimers' = 0 /\ wordScannerRescanTimeout' = "dead"
          /\ pendingMutationTargets' = {}
          /\ wordScannerHighlights' = {}
          /\ \A n \in Nodes : nodeText'[n] = Plain(nodeText[n])
     /\ wordScannerEnabled =>
          \A wc \in {"none"} \cup WordLists :
             LET r == OnToggleChanged(OnWordsChanged(CurW, wc, nodeAttached),
                                      FALSE, readyState, nodeAttached)
             IN r.sent # <<>> /\ r.sent[Len(r.sent)] = 0]_vars

\* C18 (word-scanner disable), the invariant: in every state in which the
\* scanner is disabled the document holds no highlight span of the scanner.
C18_NoHighlightWhileDisabled ==
  ~wordScannerEnabled => \A n \in nodeAttached : nodeText[n] \notin Marked

\* The overlay engine runs: observer connected, reconciliation interval
\* running, scroll listeners attached; or none of it.
Running(st) ==
  /\ st.domObserver = "set" /\ st.domObserving > 0
  /\ st.reconcileInterval = "set" /\ st.reconcileTimers > 0
  /\ st.scroll
Stopped(st) == st.domObserving = 0 /\ st.reconcileTimers = 0 /\ ~st.scroll

\* C19 (enable/disable signal handling): once the initial load has
\* succeeded or failed, a change notification leaves the engine running
\* exactly when the value it signals is enabled, and a notification whose
\* value equals the engine's flag changes nothing.
C19_SignalHandling ==
  ~loadPending =>
    \A v \in BOOLEAN, vd \in Verdicts(attached) :
       LET r == OnEnabledChanged(Cur, isEnabled, v, attached, vd)
       IN /\ v = isEnabled => r = Cur
          /\ v => Running(r)
          /\ ~v => Stopped(r)

\* fieldStats differs from the overlays in the document.
Drift == fieldStats # CountOverlays(ov)

\* C20 (drift self-healing): whenever the enabled engine's counters differ
\* from the overlays in the document, the reconciliation interval is running
\* and its callback sets the counters to the actual counts and reports them;
\* and with the interval firing fairly, the counters come to equal the actual
\* counts or the engine is switched off.
C20_DriftHeals ==
  /\ []((isEnabled /\ Drift) =>
          /\ reconcileInterval = "set" /\ reconcileTimers > 0
          /\ reconcileStats(Cur).stats = CountOverlays(ov)
          /\ reconcileStats(Cur).sent = <<CountOverlays(ov)>>)
  /\ ((isEnabled /\ Drift) ~> (~isEnabled \/ ~Drift))

\* A script has removed the overlay of a field that is in the document: the
\* enabled engine still counts it, and its interval is running.
C20_Witness ==
  /\ isEnabled /\ reconcileTimers > 0
  /\ 1 \in attached /\ overlayMap[1] # 0 /\ ~ov[overlayMap[1]].inDoc
  /\ fieldStats.total = 1 /\ CountOverlays(ov).total = 0

\* The reposition timer fires in this step.
ReposStep ==
  reposTimers' < reposTimers /\ isEnabled' = isEnabled /\ loadPending' = loadPending

\* C21 (scroll/resize handling): the scroll or resize handler leaves no tooltip
\* in the document and exactly one reposition timer pending, and touches
\* no overlay, map, cache or counter; the reposition pass changes nothing but
\* whether (and where) existing overlays are displayed: the overlay elements
\* in the document, overlayMap, tooltipMap, analyzedFields and fieldStats are
\* as before.
C21_ScrollHandling ==
  [][/\ LET r == handleScrollOrResize(Cur)
        IN /\ \A i \in OvIds : ~r.ov[i].tipInDoc
           /\ r.reposTimers = 1 /\ r.repositionTimeout = "live"
           /\ \A i \in OvIds : r.ov[i] = [ov[i] EXCEPT !.tipInDoc = FALSE]
           /\ r.overlayMap = overlayMap /\ r.tooltipMap = tooltipMap
           /\ r.analyzed = analyzedFields /\ r.stats = fieldStats
     /\ ReposStep =>
          /\ \A i \in OvIds : ov'[i] = [ov[i] EXCEPT !.hidden = ov'[i].hidden]
          /\ overlayMap' = overlayMap /\ tooltipMap' = tooltipMap
          /\ analyzedFields' = analyzedFields /\ fieldStats' = fieldStats]_vars

\* A reposition pass has hidden the overlay of the field, which had lost its
\* size: the overlay is still in the document and still counted; the tooltip
\* that was open when the page scrolled is gone while its badge's timer is
\* still pending.
C21_Witness ==
  /\ overlayMap[1] # 0 /\ ov[overlayMap[1]].inDoc /\ ov[overlayMap[1]].hidden
  /\ fieldStats.total = 1 /\ reposTimers = 0
  /\ hovered = overlayMap[1] /\ ~ov[hovered].tipInDoc /\ ov[hovered].timers > 0

\* ------------------------------------------------- utils.js: JavaScript values
\* A string is the sequence of its characters.
UpperCase ==
  <<"A", "B", "C", "D", "E", "F", "G", "H", "I", "J", "K", "L", "M",
    "N", "O", "P", "Q", "R", "S", "T", "U", "V", "W", "X", "Y", "Z">>
LowerCase ==
  <<"a", "b", "c", "d", "e", "f", "g", "h", "i", "j", "k", "l", "m",
    "n", "o", "p", "q", "r", "s", "t", "u", "v", "w", "x", "y", "z">>

MapChar(c, from, to) ==
  IF \E k \in DOMAIN from : from[k] = c
  THEN to[CHOOSE k \in DOMAIN from : from[k] = c]
  ELSE c

\* A toLowerCase that leaves every character as it is.
toLowerCase_AsIs(s) == s

\* String.prototype.toLowerCase and toUpperCase on sequences of characters.
toLowerCase(s) == [k \in DOMAIN s |-> MapChar(s[k], UpperCase, LowerCase)]
toUpperCase(s) == [k \in DOMAIN s |-> MapChar(s[k], LowerCase, UpperCase)]

\* String.prototype.includes: part occurs in s as a substring.
StrIncludes(s, part) ==
  \E k \in 0..(Len(s) - Len(part)) : SubSeq(s, k + 1, k + Len(part)) = part

\* Array.prototype.includes on a list of strings.
ListIncludes(list, s) == \E k \in DOMAIN list : list[k] = s

\* The values a caller can pass: undefined, null, a string, the booleans, and
\* a value that is none of these (a non-zero number).
Undefined == [t |-> "undefined", s |-> <<>>]
Null == [t |-> "null", s |-> <<>>]
True == [t |-> "true", s |-> <<>>]
False == [t |-> "false", s |-> <<>>]
Num == [t |-> "number", s |-> <<>>]
Str(s) == [t |-> "string", s |-> s]
TypeError == [t |-> "TypeError"]

\* ToBoolean.
Truthy(v) ==
  /\ v.t \notin {"undefined", "null", "false"}
  /\ (v.t = "string" => v.s # <<>>)

\* a || b
OrElse(a, b) == IF Truthy(a) THEN a ELSE b

\* The default of a destructuring pattern: used for undefined only.
OrDefault(v, d) == IF v.t = "undefined" THEN d ELSE v

AUTOFILL_KEYWORDS ==
  << <<"e", "m", "a", "i", "l">>, <<"e", "-", "m", "a", "i", "l">>, <<"m", "a", "i", "l">>,
     <<"p", "h", "o", "n", "e">>, <<"t", "e", "l">>, <<"m", "o", "b", "i", "l", "e">>,
     <<"c", "e", "l", "l">>, <<"f", "a", "x">>, <<"n", "a", "m", "e">>,
     <<"f", "n", "a", "m", "e">>, <<"l", "n", "a", "m", "e">>,
     <<"f", "i", "r", "s", "t", "n", "a", "m", "e">>,
     <<"l", "a", "s", "t", "n", "a", "m", "e">>,
     <<"f", "i", "r", "s", "t", "-", "n", "a", "m", "e">>,
     <<"l", "a", "s", "t", "-", "n", "a", "m", "e">>,
     <<"f", "u", "l", "l", "n", "a", "m", "e">>,
     <<"f", "u", "l", "l", "-", "n", "a", "m", "e">>,
     <<"n", "i", "c", "k", "n", "a", "m", "e">>, <<"u", "s", "e", "r", "n", "a", "m", "e">>,
     <<"u", "s", "e", "r">>, <<"a", "d", "d", "r", "e", "s", "s">>,
     <<"s", "t", "r", "e", "e", "t">>, <<"c", "i", "t", "y">>, <<"s", "t", "a", "t", "e">>,
     <<"p", "r", "o", "v", "i", "n", "c", "e">>, <<"z", "i", "p">>,
     <<"p", "o", "s", "t", "a", "l">>, <<"p", "o", "s", "t", "c", "o", "d", "e">>,
     <<"c", "o", "u", "n", "t", "r", "y">>, <<"r", "e", "g", "i", "o", "n">>,
     <<"a", "p", "t">>, <<"s", "u", "i", "t", "e">>,
     <<"b", "u", "i", "l", "d", "i", "n", "g">>, <<"c", "a", "r", "d">>,
     <<"c", "r", "e", "d", "i", "t">>, <<"c", "c", "n", "u", "m">>,
     <<"c", "c", "n", "a", "m", "e">>, <<"c", "v", "v">>, <<"c", "v", "c">>,
     <<"e", "x", "p", "i", "r", "y">>, <<"e", "x", "p", "i", "r", "a", "t", "i", "o", "n">>,
     <<"c", "o", "m", "p", "a", "n", "y">>,
     <<"o", "r", "g", "a", "n", "i", "z", "a", "t", "i", "o", "n">>, <<"o", "r", "g">>,
     <<"e", "m", "p", "l", "o", "y", "e", "r">>, <<"b", "u", "s", "i", "n", "e", "s", "s">>,
     <<"t", "i", "t", "l", "e">>, <<"p", "r", "e", "f", "i", "x">>,
     <<"s", "u", "f", "f", "i", "x">>, <<"b", "i", "r", "t", "h", "d", "a", "y">>,
     <<"b", "d", "a", "y">>, <<"a", "g", "e">>, <<"g", "e", "n", "d", "e", "r">>,
     <<"s", "e", "x">>, <<"s", "s", "n">>, <<"s", "o", "c", "i", "a", "l">>,
     <<"p", "a", "s", "s", "p", "o", "r", "t">>, <<"l", "i", "c", "e", "n", "s", "e">> >>

AUTOCOMPLETE_VALUES_THAT_TRIGGER ==
  << <<"o", "n">>, <<"n", "a", "m", "e">>, <<"e", "m", "a", "i", "l">>,
     <<"u", "s", "e", "r", "n", "a", "m", "e">>,
     <<"n", "e", "w", "-", "p", "a", "s", "s", "w", "o", "r", "d">>,
     <<"c", "u", "r", "r", "e", "n", "t", "-", "p", "a", "s", "s", "w", "o", "r", "d">>,
     <<"o", "r", "g", "a", "n", "i", "z", "a", "t", "i", "o", "n">>,
     <<"o", "r", "g", "a", "n", "i", "z", "a", "t", "i", "o", "n", "-", "t", "i", "t", "l", "e">>,
     <<"s", "t", "r", "e", "e", "t", "-", "a", "d", "d", "r", "e", "s", "s">>,
     <<"a", "d", "d", "r", "e", "s", "s", "-", "l", "i", "n", "e", "1">>,
     <<"a", "d", "d", "r", "e", "s", "s", "-", "l", "i", "n", "e", "2">>,
     <<"a", "d", "d", "r", "e", "s", "s", "-", "l", "i", "n", "e", "3">>,
     <<"a", "d", "d", "r", "e", "s", "s", "-", "l", "e", "v", "e", "l", "1">>,
     <<"a", "d", "d", "r", "e", "s", "s", "-", "l", "e", "v", "e", "l", "2">>,
     <<"a", "d", "d", "r", "e", "s", "s", "-", "l", "e", "v", "e", "l", "3">>,
     <<"a", "d", "d", "r", "e", "s", "s", "-", "l", "e", "v", "e", "l", "4">>,
     <<"c", "o", "u", "n", "t", "r", "y">>,
     <<"c", "o", "u", "n", "t", "r", "y", "-", "n", "a", "m", "e">>,
     <<"p", "o", "s", "t", "a", "l", "-", "c", "o", "d", "e">>,
     <<"c", "c", "-", "n", "a", "m", "e">>,
     <<"c", "c", "-", "g", "i", "v", "e", "n", "-", "n", "a", "m", "e">>,
     <<"c", "c", "-", "a", "d", "d", "i", "t", "i", "o", "n", "a", "l", "-", "n", "a", "m", "e">>,
     <<"c", "c", "-", "f", "a", "m", "i", "l", "y", "-", "n", "a", "m", "e">>,
     <<"c", "c", "-", "n", "u", "m", "b", "e", "r">>, <<"c", "c", "-", "e", "x", "p">>,
     <<"c", "c", "-", "e", "x", "p", "-", "m", "o", "n", "t", "h">>,
     <<"c", "c", "-", "e", "x", "p", "-", "y", "e", "a", "r">>,
     <<"c", "c", "-", "c", "s", "c">>, <<"c", "c", "-", "t", "y", "p", "e">>,
     <<"t", "r", "a", "n", "s", "a", "c", "t", "i", "o", "n", "-", "c", "u", "r", "r", "e", "n", "c", "y">>,
     <<"t", "r", "a", "n", "s", "a", "c", "t", "i", "o", "n", "-", "a", "m", "o", "u", "n", "t">>,
     <<"l", "a", "n", "g", "u", "a", "g", "e">>, <<"b", "d", "a", "y">>,
     <<"b", "d", "a", "y", "-", "d", "a", "y">>,
     <<"b", "d", "a", "y", "-", "m", "o", "n", "t", "h">>,
     <<"b", "d", "a", "y", "-", "y", "e", "a", "r">>, <<"s", "e", "x">>, <<"t", "e", "l">>,
     <<"t", "e", "l", "-", "c", "o", "u", "n", "t", "r", "y", "-", "c", "o", "d", "e">>,
     <<"t", "e", "l", "-", "n", "a", "t", "i", "o", "n", "a", "l">>,
     <<"t", "e", "l", "-", "a", "r", "e", "a", "-", "c", "o", "d", "e">>,
     <<"t", "e", "l", "-", "l", "o", "c", "a", "l">>,
     <<"t", "e", "l", "-", "e", "x", "t", "e", "n", "s", "i", "o", "n">>,
     <<"i", "m", "p", "p">>, <<"u", "r", "l">>, <<"p", "h", "o", "t", "o">>,
     <<"g", "i", "v", "e", "n", "-", "n", "a", "m", "e">>,
     <<"a", "d", "d", "i", "t", "i", "o", "n", "a", "l", "-", "n", "a", "m", "e">>,
     <<"f", "a", "m", "i", "l", "y", "-", "n", "a", "m", "e">>,
     <<"h", "o", "n", "o", "r", "i", "f", "i", "c", "-", "p", "r", "e", "f", "i", "x">>,
     <<"h", "o", "n", "o", "r", "i", "f", "i", "c", "-", "s", "u", "f", "f", "i", "x">>,
     <<"n", "i", "c", "k", "n", "a", "m", "e">> >>

SAFE_AUTOCOMPLETE_VALUES ==
  << <<"o", "f", "f">>, <<"o", "n", "e", "-", "t", "i", "m", "e", "-", "c", "o", "d", "e">>,
     <<"n", "o", "p", "e">>, <<"f", "a", "l", "s", "e">>,
     <<"d", "i", "s", "a", "b", "l", "e", "d">> >>

SKIP_INPUT_TYPES ==
  << <<"h", "i", "d", "d", "e", "n">>, <<"s", "u", "b", "m", "i", "t">>,
     <<"b", "u", "t", "t", "o", "n">>, <<"r", "e", "s", "e", "t">>,
     <<"i", "m", "a", "g", "e">>, <<"f", "i", "l", "e">>,
     <<"c", "h", "e", "c", "k", "b", "o", "x">>, <<"r", "a", "d", "i", "o">> >>

INJECTABLE_INPUT_TYPES ==
  << <<"t", "e", "x", "t">>, <<"e", "m", "a", "i", "l">>,
     <<"p", "a", "s", "s", "w", "o", "r", "d">>, <<"s", "e", "a", "r", "c", "h">>,
     <<"t", "e", "l">>, <<"u", "r", "l">>, <<"n", "u", "m", "b", "e", "r">> >>

\* isInjectableElement with every input type accepted.
isInjectableElement_AnyType(elementInfo) ==
  IF ~Truthy(elementInfo) THEN False
  ELSE IF Truthy(elementInfo.isContentEditable) THEN True
  ELSE IF OrElse(elementInfo.tagName, Str(<<>>)).t # "string" THEN TypeError
  ELSE IF toUpperCase(OrElse(elementInfo.tagName, Str(<<>>)).s)
            \in {<<"T", "E", "X", "T", "A", "R", "E", "A">>, <<"I", "N", "P", "U", "T">>} THEN True
  ELSE False

\* isInjectableElement(elementInfo): a value without toUpperCase or
\* toLowerCase in the place of the tag or the type makes the call throw.
isInjectableElement(elementInfo) ==
  IF ~Truthy(elementInfo) THEN False
  ELSE IF Truthy(elementInfo.isContentEditable) THEN True
  ELSE LET tagName == OrElse(elementInfo.tagName, Str(<<>>))
           type == OrElse(elementInfo.type, Str(<<"t", "e", "x", "t">>))
       IN  IF tagName.t # "string" THEN TypeError
           ELSE IF toUpperCase(tagName.s) = <<"T", "E", "X", "T", "A", "R", "E", "A">> THEN True
           ELSE IF toUpperCase(tagName.s) = <<"I", "N", "P", "U", "T">>
             THEN IF type.t # "string" THEN TypeError
                  ELSE IF ListIncludes(INJECTABLE_INPUT_TYPES, toLowerCase(type.s))
                         THEN True ELSE False
           ELSE False

\* The element descriptions isInjectableElement is called with.
InjectableTags ==
  {Undefined, Null} \cup
  {Str(s) : s \in {<<>>, <<"I", "N", "P", "U", "T">>, <<"i", "n", "p", "u", "t">>, <<"I", "n", "p", "u", "t">>, <<"T", "E", "X", "T", "A", "R", "E", "A">>, <<"t", "e", "x", "t", "a", "r", "e", "a">>,
                   <<"T", "e", "x", "t", "A", "r", "e", "a">>, <<"S", "E", "L", "E", "C", "T">>, <<"D", "I", "V">>, <<"B", "U", "T", "T", "O", "N">>, <<"I", "N", "P", "U", "T", "S">>}}
InjectableTypes ==
  {Undefined, Null} \cup
  {Str(s) : s \in {<<>>, <<"t", "e", "x", "t">>, <<"T", "E", "X", "T">>, <<"e", "m", "a", "i", "l">>, <<"E", "m", "a", "i", "l">>, <<"p", "a", "s", "s", "w", "o", "r", "d">>,
                   <<"s", "e", "a", "r", "c", "h">>, <<"t", "e", "l">>, <<"T", "E", "L">>, <<"u", "r", "l">>, <<"n", "u", "m", "b", "e", "r">>, <<"N", "u", "m", "b", "e", "r">>,
                   <<"c", "h", "e", "c", "k", "b", "o", "x">>, <<"h", "i", "d", "d", "e", "n">>, <<"s", "u", "b", "m", "i", "t">>, <<"d", "a", "t", "e">>, <<"f", "i", "l", "e">>,
                   <<"r", "a", "n", "g", "e">>, <<"t", "e", "x", "t", "s">>}}
InjectableArgs ==
  {Undefined, Null} \cup
  {[t |-> "object", s |-> <<>>, tagName |-> tg, type |-> ty, isContentEditable |-> ce] :
     tg \in InjectableTags, ty \in InjectableTypes, ce \in {Undefined, False, True}}

\* Neither script does anything: the page has no fields and no text, no stored
\* state arrives and no notification does.
PageQuiet ==
  /\ OvIdle /\ attached = {}
  /\ WsStart /\ wsLoadPending = FALSE /\ readyState = "complete"
  /\ nodeAttached = {} /\ nodeText = [n \in Nodes |-> "clean"]
  /\ HlIdle

Pending == [t |-> "pending"]

\* One call of isInjectableElement.
InjectableInit ==
  /\ PageQuiet
  /\ callArgs \in {[fn |-> "isInjectableElement", elementInfo |-> e] : e \in InjectableArgs}
  /\ callResult = Pending

CallIsInjectableElement ==
  /\ callResult = Pending
  /\ callArgs.fn = "isInjectableElement"
  /\ callResult' = isInjectableElement(callArgs.elementInfo)
  /\ UNCHANGED <<ovVars, wsVars, hlVars, callArgs>>

InjectableNext == CallIsInjectableElement

SpecInjectable == InjectableInit /\ [][InjectableNext]_vars

\* The injectable kinds in the words of the contract: content-editable, or a
\* TEXTAREA tag, or an INPUT tag whose type, taken as text when it is one of
\* the values in asText, is of a text-accepting kind.
InjectableKind(e, asText) ==
  /\ e.t = "object"
  /\ \/ e.isContentEditable = True
     \/ /\ e.tagName.t = "string"
        /\ \/ toUpperCase(e.tagName.s) = <<"T", "E", "X", "T", "A", "R", "E", "A">>
           \/ /\ toUpperCase(e.tagName.s) = <<"I", "N", "P", "U", "T">>
              /\ \/ e.type \in asText
                 \/ /\ e.type.t = "string"
                    /\ toLowerCase(e.type.s) \in
                         {<<"t", "e", "x", "t">>, <<"e", "m", "a", "i", "l">>, <<"p", "a", "s", "s", "w", "o", "r", "d">>, <<"s", "e", "a", "r", "c", "h">>, <<"t", "e", "l">>,
                          <<"u", "r", "l">>, <<"n", "u", "m", "b", "e", "r">>}

IsInjectableReturned ==
  callArgs.fn = "isInjectableElement" /\ callResult # Pending

\* C23 as stated: isInjectableElement returns true exactly for the injectable
\* kinds, the type of an INPUT counting as text when it is absent or null, and
\* false for everything else.
C23_AsStated ==
  IsInjectableReturned =>
    callResult = (IF InjectableKind(callArgs.elementInfo, {Undefined, Null})
                  THEN True ELSE False)

\* C23 (injectable-kind predicate): isInjectableElement returns true exactly
\* when the element is content-editable, or its tag is TEXTAREA in any letter
\* case, or its tag is INPUT and its type, in any letter case and taken as
\* text when it is absent, null or the empty string, is one of text, email,
\* password, search, tel, url, number; it returns false for every other tag
\* and type and for null and undefined.
C23_InjectablePredicate ==
  IsInjectableReturned =>
    callResult = (IF InjectableKind(callArgs.elementInfo, {Undefined, Null, Str(<<>>)})
                  THEN True ELSE False)

\* An INPUT whose type attribute is the empty string was found injectable.
C23_Witness ==
  /\ IsInjectableReturned
  /\ callArgs.elementInfo.t = "object"
  /\ callArgs.elementInfo.tagName = Str(<<"I", "N", "P", "U", "T">>)
  /\ callArgs.elementInfo.type = Str(<<>>)
  /\ callArgs.elementInfo.isContentEditable = False
  /\ callResult = True

\* ------------------------------------------------- content.js: injection commands
LF == "\n"
Digits == {"0", "1", "2", "3", "4", "5", "6", "7", "8", "9"}

\* An element of the page as the listener sees it: tagName as the DOM reports
\* it, the type attribute as getAttribute returns it (null when absent), and
\* its value (the text content of a content-editable element).
Element(tag, ty, ce, dis, ro, val) ==
  [t |-> "object", s |-> <<>>, tagName |-> Str(tag), typeAttr |-> ty,
   isContentEditable |-> ce, disabled |-> dis, readOnly |-> ro, value |-> val]

\* isInjectable(element)
isInjectable(element) ==
  IF ~Truthy(element) THEN False
  ELSE isInjectableElement(
         [t |-> "object", s |-> <<>>, tagName |-> element.tagName,
          type |-> element.typeAttr, isContentEditable |-> element.isContentEditable])

\* Value sanitization of the browser's input element, by the state of its type
\* attribute: line breaks are stripped from single-line text, leading and
\* trailing spaces too from an e-mail address and a URL, and a value that is
\* not a number is replaced by the empty string in a number field. The strings
\* of the model hold no sign, decimal point or exponent.
StripNewlines(s) == SelectSeq(s, LAMBDA c : c # LF)

RECURSIVE TrimStart(_)
TrimStart(s) == IF s # <<>> /\ Head(s) = " " THEN TrimStart(Tail(s)) ELSE s

RECURSIVE TrimEnd(_)
TrimEnd(s) ==
  IF s # <<>> /\ s[Len(s)] = " " THEN TrimEnd(SubSeq(s, 1, Len(s) - 1)) ELSE s

IsValidNumber(s) == s # <<>> /\ \A k \in DOMAIN s : s[k] \in Digits

TypeState(element) ==
  LET ty == OrElse(element.typeAttr, Str(<<"t", "e", "x", "t">>))
  IN  IF toLowerCase(ty.s) \in
           {<<"e", "m", "a", "i", "l">>, <<"p", "a", "s", "s", "w", "o", "r", "d">>, <<"s", "e", "a", "r", "c", "h">>, <<"t", "e", "l">>, <<"u", "r", "l">>, <<"n", "u", "m", "b", "e", "r">>,
            <<"c", "h", "e", "c", "k", "b", "o", "x">>, <<"d", "a", "t", "e">>}
      THEN toLowerCase(ty.s) ELSE <<"t", "e", "x", "t">>

Sanitize(element, s) ==
  IF element.tagName # Str(<<"I", "N", "P", "U", "T">>) THEN s
  ELSE IF TypeState(element) \in {<<"t", "e", "x", "t">>, <<"s", "e", "a", "r", "c", "h">>, <<"t", "e", "l">>, <<"p", "a", "s", "s", "w", "o", "r", "d">>}
    THEN StripNewlines(s)
  ELSE IF TypeState(element) \in {<<"e", "m", "a", "i", "l">>, <<"u", "r", "l">>}
    THEN TrimEnd(TrimStart(StripNewlines(s)))
  ELSE IF TypeState(element) = <<"n", "u", "m", "b", "e", "r">>
    THEN IF IsValidNumber(s) THEN s ELSE <<>>
  ELSE s

\* element.textContent = s for a content-editable element, element.value = s
\* for the others.
SetValue(element, s) ==
  IF Truthy(element.isContentEditable)
  THEN [element EXCEPT !.value = s]
  ELSE [element EXCEPT !.value = Sanitize(element, s)]

Notice(message, isError) == [message |-> message, isError |-> isError]

NoResponse == [sent |-> FALSE, success |-> FALSE]
Response(ok) == [sent |-> TRUE, success |-> ok]

\* What one run of the message listener leaves: the focused element, the
\* events dispatched on it, the notifications shown, the clipboard text and
\* the response sent.
Handled(element, events, notices, clipboard, response) ==
  [t |-> "handled", element |-> element, events |-> events,
   notices |-> notices, clipboard |-> clipboard, response |-> response]

\* fillField (append = FALSE) and appendField (append = TRUE)
InjectField(activeElement, value, append) ==
  IF isInjectable(activeElement) # True
  THEN Handled(activeElement, <<>>, <<Notice("No text field focused", TRUE)>>,
               "none", Response(FALSE))
  ELSE IF activeElement.disabled \/ activeElement.readOnly
  THEN Handled(activeElement, <<>>,
               <<Notice("Field is disabled or read-only", TRUE)>>,
               "none", Response(FALSE))
  ELSE Handled(SetValue(activeElement,
                        IF append THEN activeElement.value \o value ELSE value),
               <<"input", "change">>, <<>>, "none", Response(TRUE))

\* The chrome.runtime.onMessage listener; clipboardOk tells whether
\* navigator.clipboard.writeText resolves.
OnMessage(activeElement, message, clipboardOk) ==
  IF message.action = "fillField"
    THEN InjectField(activeElement, message.value, FALSE)
  ELSE IF message.action = "appendField"
    THEN InjectField(activeElement, message.value, TRUE)
  ELSE IF message.action = "copyToClipboard"
    THEN IF clipboardOk
         THEN Handled(activeElement, <<>>, <<Notice("Copied to clipboard", FALSE)>>,
                      message.value, Response(TRUE))
         ELSE Handled(activeElement, <<>>,
                      <<Notice("Failed to copy to clipboard", TRUE)>>,
                      "none", Response(FALSE))
  ELSE IF message.action = "showNotification"
    THEN Handled(activeElement, <<>>, <<Notice("message", Truthy(message.isError))>>,
                 "none", Response(TRUE))
  ELSE Handled(activeElement, <<>>, <<>>, "none", NoResponse)

\* The payloads: empty, a letter, a number, two lines, a leading space.
Payloads == {<<>>, <<"a">>, <<"7">>, <<"a", LF, "b">>, <<" ", "a">>}

\* The values a field holds before the command: each of them a value every
\* field kind can hold.
OldValues == {<<>>, <<"7">>}

\* The focused elements: none, the body, inputs of several types, a textarea,
\* a content-editable and a plain block, a selection list.
FocusedElements ==
  {Null, Element(<<"B", "O", "D", "Y">>, Null, False, FALSE, FALSE, <<>>)}
  \cup {Element(<<"I", "N", "P", "U", "T">>, ty, False, dis, ro, val) :
          ty \in {Null} \cup {Str(s) : s \in {<<>>, <<"t", "e", "x", "t">>, <<"T", "E", "X", "T">>, <<"e", "m", "a", "i", "l">>,
                    <<"p", "a", "s", "s", "w", "o", "r", "d">>, <<"s", "e", "a", "r", "c", "h">>, <<"t", "e", "l">>, <<"u", "r", "l">>, <<"n", "u", "m", "b", "e", "r">>,
                    <<"c", "h", "e", "c", "k", "b", "o", "x">>, <<"d", "a", "t", "e">>}},
          dis \in BOOLEAN, ro \in BOOLEAN, val \in OldValues}
  \cup {Element(<<"T", "E", "X", "T", "A", "R", "E", "A">>, Null, False, dis, ro, val) :
          dis \in BOOLEAN, ro \in BOOLEAN, val \in OldValues}
  \cup {Element(<<"D", "I", "V">>, Null, ce, FALSE, FALSE, val) :
          ce \in {False, True}, val \in OldValues}
  \cup {Element(<<"S", "E", "L", "E", "C", "T">>, Null, False, dis, FALSE, <<>>) : dis \in BOOLEAN}

Messages ==
  {[action |-> a, value |-> v, isError |-> Undefined] :
     a \in {"fillField", "appendField"}, v \in Payloads}
  \cup {[action |-> "copyToClipboard", value |-> <<"a">>, isError |-> Undefined]}
  \cup {[action |-> "showNotification", value |-> <<>>, isError |-> e] :
          e \in {Undefined, True}}
  \cup {[action |-> "toggle", value |-> <<>>, isError |-> Undefined]}

\* One message reaches the listener of a page on which neither script does
\* anything else.
MessageInit ==
  /\ PageQuiet
  /\ callArgs \in {[fn |-> "onMessage", activeElement |-> e, message |-> msg] :
                     e \in FocusedElements, msg \in Messages}
  /\ callResult = Pending

ReceiveMessage ==
  /\ callResult = Pending
  /\ callArgs.fn = "onMessage"
  /\ \E clipboardOk \in BOOLEAN :
       callResult' = OnMessage(callArgs.activeElement, callArgs.message, clipboardOk)
  /\ UNCHANGED <<ovVars, wsVars, hlVars, callArgs>>

MessageNext == ReceiveMessage

SpecMessage == MessageInit /\ [][MessageNext]_vars

InjectionHandled ==
  /\ callArgs.fn = "onMessage" /\ callResult # Pending
  /\ callArgs.message.action \in {"fillField", "appendField"}

\* The value the command asks for: the payload, or the old value followed by
\* the payload.
Requested(element, message) ==
  IF message.action = "appendField" THEN element.value \o message.value
  ELSE message.value

\* C22 (injection command validation): for fillField and appendField, if the
\* focused element is not injectable, or is disabled or read-only, the element
\* is left as it was, no event is dispatched, one error notification is shown
\* and the response is success:false; otherwise the value becomes the payload,
\* or the old value followed by the payload, an input event and then a change
\* event are dispatched, and the response is success:true.
C22_InjectionValidation ==
  InjectionHandled =>
    LET el == callArgs.activeElement
        r == callResult
    IN  IF isInjectable(el) # True \/ el.disabled \/ el.readOnly
        THEN /\ r.element = el
             /\ r.events = <<>>
             /\ Len(r.notices) = 1 /\ r.notices[1].isError
             /\ r.response = Response(FALSE)
        ELSE /\ r.element = [el EXCEPT !.value = Requested(el, callArgs.message)]
             /\ r.events = <<"input", "change">>
             /\ r.response = Response(TRUE)

\* ------------------------------------------------- utils.js: analyzeFieldAttributes
\* The first keyword of AUTOFILL_KEYWORDS that occurs in s, <<>> if none does.
FirstKeyword(s) ==
  IF \E k \in DOMAIN AUTOFILL_KEYWORDS : StrIncludes(s, AUTOFILL_KEYWORDS[k])
  THEN AUTOFILL_KEYWORDS[
         CHOOSE k \in DOMAIN AUTOFILL_KEYWORDS :
           /\ StrIncludes(s, AUTOFILL_KEYWORDS[k])
           /\ \A j \in 1..(k - 1) : ~StrIncludes(s, AUTOFILL_KEYWORDS[j])]
  ELSE <<>>

\* The state of one call between two rules: the level, the findings, and the
\* level as it was after each rule so far.
Start == [riskLevel |-> "low", risks |-> <<>>, levels |-> <<"low">>]

\* A rule that adds a finding and leaves the level at `level`.
Push(v, type, rule, keyword, level) ==
  [riskLevel |-> level,
   risks |-> Append(v.risks, [type |-> type, rule |-> rule, keyword |-> keyword]),
   levels |-> Append(v.levels, level)]

\* A rule that adds nothing.
Pass(v) == [v EXCEPT !.levels = Append(v.levels, v.riskLevel)]

\* if (riskLevel === 'low') riskLevel = 'medium'
LowToMedium(level) == IF level = "low" THEN "medium" ELSE level

\* SKIP_INPUT_TYPES.includes(normalizedType), without the normalisation.
SkippedType_AsWritten(type) == ListIncludes(SKIP_INPUT_TYPES, type)

SkippedType(type) == ListIncludes(SKIP_INPUT_TYPES, toLowerCase(type))

\* The autocomplete rule with a warning for a safe value.
AutocompleteRule_SafeWarns(v, autocomplete) ==
  IF autocomplete = <<>> \/ ListIncludes(SAFE_AUTOCOMPLETE_VALUES, autocomplete)
    THEN Push(v, "warning", "autocomplete", <<>>, "medium")
  ELSE IF ListIncludes(AUTOCOMPLETE_VALUES_THAT_TRIGGER, autocomplete)
    THEN Push(v, "error", "autocomplete", <<>>, "high")
  ELSE Pass(v)

\* Check autocomplete attribute (autocomplete is the normalised value).
AutocompleteRule(v, autocomplete) ==
  IF autocomplete = <<>>
    THEN Push(v, "warning", "autocomplete-missing", <<>>, "medium")
  ELSE IF ListIncludes(SAFE_AUTOCOMPLETE_VALUES, autocomplete)
    THEN Push(v, "info", "autocomplete", <<>>, v.riskLevel)
  ELSE IF ListIncludes(AUTOCOMPLETE_VALUES_THAT_TRIGGER, autocomplete)
    THEN Push(v, "error", "autocomplete", <<>>, "high")
  ELSE Pass(v)

\* The type rule whose password branch assigns medium whatever the level.
TypeRule_Assign(v, type) ==
  IF type \in {<<"e", "m", "a", "i", "l">>, <<"t", "e", "l">>, <<"u", "r", "l">>}
    THEN Push(v, "error", "type", <<>>, "high")
  ELSE IF type = <<"p", "a", "s", "s", "w", "o", "r", "d">>
    THEN Push(v, "warning", "type", <<>>, "medium")
  ELSE Pass(v)

\* Check input type (type is the normalised value).
TypeRule(v, type) ==
  IF type \in {<<"e", "m", "a", "i", "l">>, <<"t", "e", "l">>, <<"u", "r", "l">>}
    THEN Push(v, "error", "type", <<>>, "high")
  ELSE IF type = <<"p", "a", "s", "s", "w", "o", "r", "d">>
    THEN Push(v, "warning", "type", <<>>,
              IF v.riskLevel # "high" THEN "medium" ELSE v.riskLevel)
  ELSE Pass(v)

\* Check name attribute and id attribute for keywords.
KeywordWarning(v, rule, s) ==
  IF FirstKeyword(s) # <<>>
  THEN Push(v, "warning", rule, FirstKeyword(s), LowToMedium(v.riskLevel))
  ELSE Pass(v)

\* Check placeholder and label text for keywords.
KeywordInfo(v, rule, s) ==
  IF FirstKeyword(s) # <<>>
  THEN Push(v, "info", rule, FirstKeyword(s), v.riskLevel)
  ELSE Pass(v)

\* The form-history rule without the test of the autocomplete value.
FormHistoryRule_AnyAutocomplete(v, name, autocomplete) ==
  IF name # <<>>
  THEN Push(v, "warning", "form-history", <<>>, LowToMedium(v.riskLevel))
  ELSE Pass(v)

\* Fields with an unsafe autocomplete value that have a name.
FormHistoryRule(v, name, autocomplete) ==
  IF /\ name # <<>>
     /\ autocomplete # <<>>
     /\ ~ListIncludes(SAFE_AUTOCOMPLETE_VALUES, autocomplete)
  THEN Push(v, "warning", "form-history", <<>>, LowToMedium(v.riskLevel))
  ELSE Pass(v)

\* The rules in the order of the code, on the normalised values.
Rules(type, name, id, autocomplete, placeholder, labelText) ==
  FormHistoryRule(
    KeywordInfo(
      KeywordInfo(
        KeywordWarning(
          KeywordWarning(
            TypeRule(AutocompleteRule(Start, autocomplete), type),
            "name", name),
          "id", id),
        "placeholder", placeholder),
      "label", labelText),
    name, autocomplete)

\* The field of an argument: undefined for a field the object does not have
\* and for every field of a value that is not an object.
Field(attrs, f) == IF attrs.t = "object" THEN attrs[f] ELSE Undefined

\* analyzeFieldAttributes(attrs). Destructuring undefined or null throws, and
\* so does the call of toLowerCase on a value that is not a string. The
\* result carries `levels`, the level after each rule, beside what the
\* function returns.
analyzeFieldAttributes(attrs) ==
  IF attrs.t \in {"undefined", "null"} THEN TypeError
  ELSE
    LET tagName == OrDefault(Field(attrs, "tagName"), Str(<<>>))
        type == OrDefault(Field(attrs, "type"), Str(<<"t", "e", "x", "t">>))
        name == OrDefault(Field(attrs, "name"), Str(<<>>))
        id == OrDefault(Field(attrs, "id"), Str(<<>>))
        autocomplete == OrDefault(Field(attrs, "autocomplete"), Str(<<>>))
        placeholder == OrDefault(Field(attrs, "placeholder"), Str(<<>>))
        labelText == OrDefault(Field(attrs, "labelText"), Str(<<>>))
    IN  IF \E x \in {tagName, type, name, id, autocomplete, placeholder, labelText} :
             x.t # "string"
          THEN TypeError
        ELSE IF SkippedType(type.s) THEN Null
        ELSE IF toLowerCase(tagName.s) = <<"s", "e", "l", "e", "c", "t">> THEN Null
        ELSE
          LET v == Rules(toLowerCase(type.s), toLowerCase(name.s), toLowerCase(id.s),
                         toLowerCase(autocomplete.s), toLowerCase(placeholder.s),
                         toLowerCase(labelText.s))
          IN  [t |-> "verdict", s |-> <<>>,
               riskLevel |-> v.riskLevel, risks |-> v.risks, levels |-> v.levels,
               attributes |->
                 [tagName |-> toLowerCase(tagName.s), type |-> toLowerCase(type.s),
                  name |-> name.s, id |-> id.s, autocomplete |-> autocomplete.s,
                  placeholder |-> placeholder.s]]

Attrs(tg, ty, nm, id, ac, ph, lb) ==
  [t |-> "object", s |-> <<>>, tagName |-> tg, type |-> ty, name |-> nm, id |-> id,
   autocomplete |-> ac, placeholder |-> ph, labelText |-> lb]

\* The attribute values of the calls: every skip type, the autofill types in
\* several letter cases, every safe autocomplete value, and names that hold a
\* keyword or none.
AttrTags ==
  {Undefined} \cup
  {Str(s) : s \in {<<>>, <<"i", "n", "p", "u", "t">>, <<"I", "N", "P", "U", "T">>, <<"t", "e", "x", "t", "a", "r", "e", "a">>, <<"s", "e", "l", "e", "c", "t">>, <<"S", "E", "L", "E", "C", "T">>, <<"d", "i", "v">>}}
AttrTypes ==
  {Undefined} \cup
  {Str(s) : s \in {<<>>, <<"t", "e", "x", "t">>, <<"e", "m", "a", "i", "l">>, <<"E", "M", "A", "I", "L">>, <<"T", "e", "l">>, <<"u", "r", "l">>, <<"p", "a", "s", "s", "w", "o", "r", "d">>,
                   <<"h", "i", "d", "d", "e", "n">>, <<"S", "u", "b", "m", "i", "t">>, <<"b", "u", "t", "t", "o", "n">>, <<"r", "e", "s", "e", "t">>, <<"i", "m", "a", "g", "e">>, <<"f", "i", "l", "e">>,
                   <<"C", "H", "E", "C", "K", "B", "O", "X">>, <<"r", "a", "d", "i", "o">>}}
AttrNames == {Str(s) : s \in {<<>>, <<"q">>, <<"u", "s", "e", "r", "E", "m", "a", "i", "l">>}}
AttrIds == {Str(s) : s \in {<<>>, <<"c", "i", "t", "y">>}}
AttrAutocompletes ==
  {Str(s) : s \in {<<>>, <<"o", "f", "f">>, <<"O", "F", "F">>, <<"o", "n", "e", "-", "t", "i", "m", "e", "-", "c", "o", "d", "e">>, <<"n", "o", "p", "e">>, <<"f", "a", "l", "s", "e">>,
                   <<"D", "i", "s", "a", "b", "l", "e", "d">>, <<"o", "n">>, <<"e", "m", "a", "i", "l">>, <<"f", "o", "o">>}}
AttrPlaceholders == {Str(s) : s \in {<<>>, <<"P", "h", "o", "n", "e">>}}
AttrLabels == {Str(s) : s \in {<<>>, <<"Y", "o", "u", "r", " ", "n", "a", "m", "e">>}}

\* Every combination of the values above.
WellFormedAttrs ==
  {Attrs(tg, ty, nm, id, ac, ph, lb) :
     tg \in AttrTags, ty \in AttrTypes, nm \in AttrNames, id \in AttrIds,
     ac \in AttrAutocompletes, ph \in AttrPlaceholders, lb \in AttrLabels}

AttrFields ==
  {"tagName", "type", "name", "id", "autocomplete", "placeholder", "labelText"}

\* The other shapes of the argument: none, null, a number, an object without
\* fields, and objects one field of which is null or a number.
OtherAttrs ==
  {Undefined, Null, Num,
   Attrs(Undefined, Undefined, Undefined, Undefined, Undefined, Undefined, Undefined)}
  \cup {[Attrs(Undefined, Undefined, Undefined, Undefined, Undefined, Undefined,
               Undefined) EXCEPT ![f] = x] : f \in AttrFields, x \in {Null, Num}}

\* One call of analyzeFieldAttributes.
AnalyzeInit ==
  /\ PageQuiet
  /\ callArgs \in {[fn |-> "analyzeFieldAttributes", attrs |-> a] :
                     a \in WellFormedAttrs \cup OtherAttrs}
  /\ callResult = Pending

CallAnalyzeFieldAttributes ==
  /\ callResult = Pending
  /\ callArgs.fn = "analyzeFieldAttributes"
  /\ callResult' = analyzeFieldAttributes(callArgs.attrs)
  /\ UNCHANGED <<ovVars, wsVars, hlVars, callArgs>>

AnalyzeNext == CallAnalyzeFieldAttributes

SpecAnalyze == AnalyzeInit /\ [][AnalyzeNext]_vars

Analyzed == callArgs.fn = "analyzeFieldAttributes" /\ callResult # Pending

\* The call had an object whose fields are strings or absent.
AnalyzedStrings ==
  /\ Analyzed
  /\ callArgs.attrs.t = "object"
  /\ \A f \in AttrFields : callArgs.attrs[f].t \in {"string", "undefined"}

\* The type of the call is email, tel or url, in one of the letter cases of
\* the calls.
AutofillTypeGiven ==
  callArgs.attrs.type \in {Str(<<"e", "m", "a", "i", "l">>), Str(<<"E", "M", "A", "I", "L">>), Str(<<"T", "e", "l">>), Str(<<"u", "r", "l">>)}

SelectGiven == callArgs.attrs.tagName \in {Str(<<"s", "e", "l", "e", "c", "t">>), Str(<<"S", "E", "L", "E", "C", "T">>)}

\* C24 as stated: for every combination of tag, name, id, autocomplete,
\* placeholder and label text and every letter case of the type, the result
\* is a verdict of level high when the type is email, tel or url.
C24_AsStated ==
  (AnalyzedStrings /\ AutofillTypeGiven) =>
    (callResult.t = "verdict" /\ callResult.riskLevel = "high")

\* C24 (autofill types are high): for every tag other than select and every
\* combination of name, id, autocomplete, placeholder and label text, and for
\* every letter case of the type, analyzeFieldAttributes returns a verdict of
\* level high when the type is email, tel or url; for a select it returns null.
C24_AutofillTypesHigh ==
  (AnalyzedStrings /\ AutofillTypeGiven) =>
    IF SelectGiven THEN callResult = Null
    ELSE callResult.t = "verdict" /\ callResult.riskLevel = "high"

\* A field of type EMAIL with a safe autocomplete value and no name was
\* classified high.
C24_Witness ==
  /\ Analyzed
  /\ callArgs.attrs = Attrs(Str(<<"i", "n", "p", "u", "t">>), Str(<<"E", "M", "A", "I", "L">>), Str(<<>>), Str(<<>>),
                            Str(<<"o", "f", "f">>), Str(<<>>), Str(<<>>))
  /\ callResult.t = "verdict" /\ callResult.riskLevel = "high"

SkipTypeGiven ==
  callArgs.attrs.type \in
    {Str(s) : s \in {<<"h", "i", "d", "d", "e", "n">>, <<"S", "u", "b", "m", "i", "t">>, <<"b", "u", "t", "t", "o", "n">>, <<"r", "e", "s", "e", "t">>, <<"i", "m", "a", "g", "e">>, <<"f", "i", "l", "e">>,
                     <<"C", "H", "E", "C", "K", "B", "O", "X">>, <<"r", "a", "d", "i", "o">>}}

\* C25 (skip types): for every type of the skip set, in any letter case and
\* with any other attributes, analyzeFieldAttributes returns null.
C25_SkipTypes ==
  (AnalyzedStrings /\ SkipTypeGiven) => callResult = Null

\* An input of type CHECKBOX whose name holds a keyword and whose autocomplete
\* value triggers autofill was skipped.
C25_Witness ==
  /\ Analyzed
  /\ callArgs.attrs = Attrs(Str(<<"i", "n", "p", "u", "t">>), Str(<<"C", "H", "E", "C", "K", "B", "O", "X">>), Str(<<"u", "s", "e", "r", "E", "m", "a", "i", "l">>),
                            Str(<<>>), Str(<<"e", "m", "a", "i", "l">>), Str(<<>>), Str(<<>>))
  /\ callResult = Null

InputOrTextareaGiven ==
  callArgs.attrs.tagName \in {Str(<<"i", "n", "p", "u", "t">>), Str(<<"I", "N", "P", "U", "T">>), Str(<<"t", "e", "x", "t", "a", "r", "e", "a">>)}

\* C26 (only inputs and textareas are analysed): analyzeFieldAttributes
\* returns null for every element whose tag is neither input nor textarea,
\* whatever its other attributes, and a verdict only for input and textarea
\* elements.
C26_OnlyInputAndTextarea ==
  AnalyzedStrings =>
    /\ ~InputOrTextareaGiven => callResult = Null
    /\ callResult.t = "verdict" => InputOrTextareaGiven

Verdict == Analyzed /\ callResult.t = "verdict"

\* A field of the argument of the call.
Arg(f) == Field(callArgs.attrs, f)

\* The autocomplete value of the call is one of the safe values, in one of the
\* letter cases of the calls.
SafeAutocompleteGiven ==
  Arg("autocomplete") \in
    {Str(s) : s \in {<<"o", "f", "f">>, <<"O", "F", "F">>, <<"o", "n", "e", "-", "t", "i", "m", "e", "-", "c", "o", "d", "e">>, <<"n", "o", "p", "e">>, <<"f", "a", "l", "s", "e">>, <<"D", "i", "s", "a", "b", "l", "e", "d">>}}

\* The findings of a verdict that the autocomplete rule added.
AutocompleteFindings(r) ==
  {k \in DOMAIN r.risks : r.risks[k].rule \in {"autocomplete", "autocomplete-missing"}}

\* C27 (safe autocomplete values): for every autocomplete value of the safe
\* set, in any letter case, the autocomplete rule adds exactly one info
\* finding and no warning or error and leaves the level low; and when the
\* type is text and neither the name nor the id holds a keyword, the level of
\* the verdict is low.
C27_SafeAutocomplete ==
  (Verdict /\ SafeAutocompleteGiven) =>
    /\ \E k \in DOMAIN callResult.risks :
         /\ AutocompleteFindings(callResult) = {k}
         /\ callResult.risks[k].type = "info"
    /\ callResult.levels[2] = "low"
    /\ ( /\ Arg("type") \in {Undefined, Str(<<"t", "e", "x", "t">>)}
         /\ Arg("name") \in {Str(<<>>), Str(<<"q">>)}
         /\ Arg("id") = Str(<<>>) )
       => callResult.riskLevel = "low"

\* A text input named q with autocomplete Disabled and a placeholder that
\* holds a keyword got a verdict of level low with two info findings.
C27_Witness ==
  /\ Verdict
  /\ callArgs.attrs = Attrs(Str(<<"i", "n", "p", "u", "t">>), Str(<<"t", "e", "x", "t">>), Str(<<"q">>), Str(<<>>),
                            Str(<<"D", "i", "s", "a", "b", "l", "e", "d">>), Str(<<"P", "h", "o", "n", "e">>), Str(<<>>))
  /\ callResult.riskLevel = "low"
  /\ Len(callResult.risks) = 2
  /\ \A k \in 1..2 : callResult.risks[k].type = "info"

Rank(level) == CASE level = "low" -> 0 [] level = "medium" -> 1 [] level = "high" -> 2

\* C28 (monotone level): during one call the level never moves from high to
\* medium or low nor from medium to low; the type rule leaves a level that is
\* already high unchanged for a password; the placeholder and label rules
\* never change the level; the verdict carries the level after the last rule.
C28_MonotoneLevel ==
  Verdict =>
    /\ Len(callResult.levels) = 8
    /\ \A k \in 1..7 : Rank(callResult.levels[k]) <= Rank(callResult.levels[k + 1])
    /\ ( /\ Arg("type") = Str(<<"p", "a", "s", "s", "w", "o", "r", "d">>)
         /\ callResult.levels[2] = "high" )
       => callResult.levels[3] = "high"
    /\ callResult.levels[6] = callResult.levels[5]
    /\ callResult.levels[7] = callResult.levels[6]
    /\ callResult.riskLevel = callResult.levels[8]

\* A password field whose autocomplete value triggers autofill and whose
\* placeholder and label hold keywords: the level was high before the
\* password warning and it is high in the verdict.
C28_Witness ==
  /\ Verdict
  /\ callArgs.attrs = Attrs(Str(<<"i", "n", "p", "u", "t">>), Str(<<"p", "a", "s", "s", "w", "o", "r", "d">>), Str(<<>>), Str(<<>>),
                            Str(<<"e", "m", "a", "i", "l">>), Str(<<"P", "h", "o", "n", "e">>), Str(<<"Y", "o", "u", "r", " ", "n", "a", "m", "e">>))
  /\ callResult.levels[2] = "high"
  /\ callResult.risks[2] = [type |-> "warning", rule |-> "type", keyword |-> <<>>]
  /\ Len(callResult.risks) = 4
  /\ callResult.riskLevel = "high"

HasFinding(r, rule) == \E k \in DOMAIN r.risks : r.risks[k].rule = rule

\* The call has a name, and an autocomplete value that is neither empty nor,
\* in any letter case, one of the safe values.
NamedAndUnsafeGiven ==
  /\ callArgs.attrs.t = "object"
  /\ callArgs.attrs.name \in {Str(<<"q">>), Str(<<"u", "s", "e", "r", "E", "m", "a", "i", "l">>)}
  /\ callArgs.attrs.autocomplete \in {Str(<<"o", "n">>), Str(<<"e", "m", "a", "i", "l">>), Str(<<"f", "o", "o">>)}

\* C29 (rules 1 and 4 exclude each other): no verdict holds both the
\* missing-autocomplete warning and the form-history warning; the
\* form-history warning is in the verdict exactly when the name is not empty
\* and the autocomplete value is neither empty nor safe, it is added once, as
\* the last finding, and it raises a low level to medium and leaves any other.
C29_FormHistoryExclusive ==
  Verdict =>
    /\ ~(HasFinding(callResult, "autocomplete-missing")
         /\ HasFinding(callResult, "form-history"))
    /\ HasFinding(callResult, "form-history") <=> NamedAndUnsafeGiven
    /\ HasFinding(callResult, "form-history") =>
         /\ callResult.risks[Len(callResult.risks)] =
              [type |-> "warning", rule |-> "form-history", keyword |-> <<>>]
         /\ \A k \in 1..(Len(callResult.risks) - 1) :
              callResult.risks[k].rule # "form-history"
         /\ callResult.levels[8] =
              (IF callResult.levels[7] = "low" THEN "medium" ELSE callResult.levels[7])

\* A text input named q with the autocomplete value foo: the form-history
\* warning is its only finding and raised the level from low to medium.
C29_Witness ==
  /\ Verdict
  /\ callArgs.attrs = Attrs(Str(<<"i", "n", "p", "u", "t">>), Str(<<"t", "e", "x", "t">>), Str(<<"q">>), Str(<<>>),
                            Str(<<"f", "o", "o">>), Str(<<>>), Str(<<>>))
  /\ callResult.risks = <<[type |-> "warning", rule |-> "form-history", keyword |-> <<>>]>>
  /\ callResult.levels[7] = "low"
  /\ callResult.riskLevel = "medium"

\* The value an absent field defaults to.
DefaultOf(f) == IF f = "type" THEN <<"t", "e", "x", "t">> ELSE <<>>

\* The element kind of the call is analyzable: its type, text when absent, is
\* not a skip type and its tag is not select.
AnalyzableGiven ==
  /\ callArgs.attrs.t # "object"
     \/ /\ callArgs.attrs.type.t \in {"undefined", "string"} => ~SkipTypeGiven
        /\ callArgs.attrs.tagName.t \in {"undefined", "string"} => ~SelectGiven

\* C30 (totality): analyzeFieldAttributes throws for no input shape, neither
\* for an absent argument nor for absent fields nor for fields that are null
\* or not strings; absent fields default to tag '', type 'text' and '' for
\* the others; and a verdict is returned whenever the element kind is
\* analyzable.
C30_Total ==
  Analyzed =>
    /\ callResult # TypeError
    /\ (callResult.t = "verdict" /\ callArgs.attrs.t = "object") =>
         \A f \in AttrFields \ {"labelText"} :
           callArgs.attrs[f] = Undefined => callResult.attributes[f] = DefaultOf(f)
    /\ AnalyzableGiven => callResult.t = "verdict"

\* The occurrence of length len at index i of t has a word character directly
\* before it or directly after it.
Embedded(t, i, len) ==
  \/ i > 0 /\ IsWordChar(t[i])
  \/ i + len < Len(t) /\ IsWordChar(t[i + len + 1])

\* C31 (whole-word matching): in no text node of the container does the
\* pattern built from the word list match an occurrence that has a word
\* character directly before or after it, from whatever index the search
\* starts; and a text node in which every occurrence of every forbidden word
\* is embedded in that way is left without a highlight.
C31_WholeWord ==
  \A k \in DOMAIN hlDoc :
    ~hlDoc[k].span =>
      LET t == hlDoc[k].s
      IN  /\ \A from \in 0..Len(t) :
               LET match == PatternExec(t, from, hlWords)
               IN  match.index >= 0 => ~Embedded(t, match.index, match.len)
          /\ (\A j \in DOMAIN hlWords, i \in 0..Len(t) :
                WordAt(t, i, hlWords[j]) => Embedded(t, i, Len(hlWords[j])))
             => highlightForbiddenWordsInNode(hlDoc, k, hlWords) = hlDoc

\* The index in the text at which the f-th of the fragments begins.
FragmentStart(fragments, f) == Len(Concat(SubSeq(fragments, 1, f - 1)))

\* C32 (case-insensitive matching): for every text node of the container,
\* every forbidden word and every occurrence of the word in any letter case
\* that stands as a whole word (no word character directly before or after
\* it), the fragments built for the node hold a highlight span that begins at
\* the occurrence and holds its text in the case of the text; and the
\* fragments, in their order, make up the text of the node.
C32_CaseInsensitive ==
  \A k \in DOMAIN hlDoc :
    ~hlDoc[k].span =>
      LET t == hlDoc[k].s
          fragments == Fragments(t, 0, hlWords)
      IN  /\ \A j \in DOMAIN hlWords, i \in 0..Len(t) :
               (WordAt(t, i, hlWords[j]) /\ ~Embedded(t, i, Len(hlWords[j]))) =>
                 \E f \in DOMAIN fragments :
                   /\ fragments[f].span
                   /\ FragmentStart(fragments, f) = i
                   /\ fragments[f].s = Slice(t, i, i + Len(hlWords[j]))
          /\ Concat(fragments) = t

\* ------------------------------------------------- content.js: tooltip markup
DQ == "\""
SQ == "'"

\* escapeHtml that leaves the two quote characters as they are.
escapeHtml_NoQuotes(str) ==
  LET entity(c) == CASE c = "&" -> <<"&", "a", "m", "p", ";">> [] c = "<" -> <<"&", "l", "t", ";">>
                     [] c = ">" -> <<"&", "g", "t", ";">> [] OTHER -> <<c>>
      RECURSIVE replace(_)
      replace(s) == IF s = <<>> THEN <<>> ELSE entity(Head(s)) \o replace(Tail(s))
  IN  replace(str)

\* escapeHtml(str) for a string: '' for the empty string, else every
\* character of the escape map replaced by its entity in one pass.
escapeHtml(str) ==
  LET entity(c) == CASE c = "&" -> <<"&", "a", "m", "p", ";">> [] c = "<" -> <<"&", "l", "t", ";">>
                     [] c = ">" -> <<"&", "g", "t", ";">> [] c = DQ -> <<"&", "q", "u", "o", "t", ";">>
                     [] c = SQ -> <<"&", "#", "3", "9", ";">> [] OTHER -> <<c>>
      RECURSIVE replace(_)
      replace(s) == IF s = <<>> THEN <<>> ELSE entity(Head(s)) \o replace(Tail(s))
  IN  IF str = <<>> THEN <<>> ELSE replace(str)

\* a || b for strings
OrString(a, b) == IF a # <<>> THEN a ELSE b

\* The characters outside ASCII, by name.
Bullet == <<"bullet">>
Icon(type) ==
  IF type = "error" THEN <<"red circle">>
  ELSE IF type = "warning" THEN <<"yellow circle">> ELSE <<"blue circle">>

RECURSIVE RiskLines(_)
RiskLines(risks) ==
  IF risks = <<>> THEN <<>>
  ELSE Icon(Head(risks).type) \o <<" ">> \o escapeHtml(Head(risks).message) \o <<"<", "b", "r", ">">>
       \o RiskLines(Tail(risks))

\* tooltipContent as createOverlay assigns it to tooltip.innerHTML.
TooltipContent(riskLevel, risks, attributes) ==
  <<"<", "s", "t", "r", "o", "n", "g", ">", "A", "u", "t", "o", "f", "i", "l", "l", " ", "R", "i", "s", "k", ":", " ">> \o escapeHtml(toUpperCase(riskLevel))
    \o <<"<", "/", "s", "t", "r", "o", "n", "g", ">", "<", "b", "r", ">", "<", "b", "r", ">">>
  \o <<"<", "s", "t", "r", "o", "n", "g", ">", "A", "t", "t", "r", "i", "b", "u", "t", "e", "s", ":", "<", "/", "s", "t", "r", "o", "n", "g", ">", "<", "b", "r", ">">>
  \o Bullet \o <<" ", "n", "a", "m", "e", ":", " ">> \o OrString(escapeHtml(attributes.name), <<"(", "n", "o", "n", "e", ")">>) \o <<"<", "b", "r", ">">>
  \o Bullet \o <<" ", "i", "d", ":", " ">> \o OrString(escapeHtml(attributes.id), <<"(", "n", "o", "n", "e", ")">>) \o <<"<", "b", "r", ">">>
  \o Bullet \o <<" ", "a", "u", "t", "o", "c", "o", "m", "p", "l", "e", "t", "e", ":", " ">>
    \o OrString(escapeHtml(attributes.autocomplete), <<"(", "n", "o", "n", "e", ")">>) \o <<"<", "b", "r", ">">>
  \o Bullet \o <<" ", "t", "y", "p", "e", ":", " ">> \o escapeHtml(attributes.type) \o <<"<", "b", "r", ">", "<", "b", "r", ">">>
  \o <<"<", "s", "t", "r", "o", "n", "g", ">", "A", "n", "a", "l", "y", "s", "i", "s", ":", "<", "/", "s", "t", "r", "o", "n", "g", ">", "<", "b", "r", ">">>
  \o RiskLines(risks)
  \o (IF riskLevel # <<"l", "o", "w">>
      THEN <<"<", "b", "r", ">", "<", "s", "t", "r", "o", "n", "g", ">", "R", "e", "c", "o", "m", "m", "e", "n", "d", "e", "d", " ", "f", "i", "x", ":", "<", "/", "s", "t", "r", "o", "n", "g", ">", "<", "b", "r", ">">>
           \o <<"A", "d", "d", " ", "a", "u", "t", "o", "c", "o", "m", "p", "l", "e", "t", "e", "=">> \o <<DQ>> \o <<"o", "f", "f">> \o <<DQ>>
           \o <<" ", "o", "r", " ", "a", "u", "t", "o", "c", "o", "m", "p", "l", "e", "t", "e", "=">> \o <<DQ>> \o <<"o", "n", "e", "-", "t", "i", "m", "e", "-", "c", "o", "d", "e">> \o <<DQ>>
      ELSE <<>>)

\* Attribute values and finding messages: plain text, each character of the
\* escape map, the beginning of an element with an attribute, and a string
\* that already is an entity.
MarkupValues ==
  {<<>>, <<"a">>, <<"&">>, <<">">>, <<DQ>>, <<SQ>>, <<"<", "b", " ", "x", "=">>, <<"&", "l", "t", ";">>}

TooltipRisks ==
  {<<>>}
  \cup {<<[type |-> ty, message |-> msg]>> :
          ty \in {"error", "info"}, msg \in MarkupValues \ {<<>>}}
  \cup {<<[type |-> "warning", message |-> <<"<", "b", " ", "x", "=">>],
          [type |-> "info", message |-> <<SQ>>]>>}

\* createOverlay builds the markup of one tooltip.
TooltipInit ==
  /\ PageQuiet
  /\ callArgs \in
       {[fn |-> "tooltipContent", riskLevel |-> lv, risks |-> rs,
         attributes |-> [name |-> nm, id |-> id, autocomplete |-> ac, type |-> ty]] :
          lv \in {<<"l", "o", "w">>, <<"h", "i", "g", "h">>}, rs \in TooltipRisks,
          nm \in MarkupValues, id \in {<<>>, <<"<", "b", " ", "x", "=">>, <<SQ>>},
          ac \in {<<>>, <<"&", "l", "t", ";">>, <<DQ>>}, ty \in {<<"t", "e", "x", "t">>, <<">">>, <<"&">>}}
  /\ callResult = Pending

BuildTooltip ==
  /\ callResult = Pending
  /\ callArgs.fn = "tooltipContent"
  /\ callResult' = [t |-> "markup",
                    s |-> TooltipContent(callArgs.riskLevel, callArgs.risks,
                                         callArgs.attributes)]
  /\ UNCHANGED <<ovVars, wsVars, hlVars, callArgs>>

TooltipNext == BuildTooltip

SpecTooltip == TooltipInit /\ [][TooltipNext]_vars

TooltipBuilt == callArgs.fn = "tooltipContent" /\ callResult # Pending

\* The text an HTML parser reads from escaped text: each entity stands for
\* its character.
RECURSIVE Unescape(_)
Unescape(s) ==
  LET starts(e) == Len(s) >= Len(e) /\ SubSeq(s, 1, Len(e)) = e
      rest(e) == SubSeq(s, Len(e) + 1, Len(s))
  IN  IF s = <<>> THEN <<>>
      ELSE IF starts(<<"&", "a", "m", "p", ";">>) THEN <<"&">> \o Unescape(rest(<<"&", "a", "m", "p", ";">>))
      ELSE IF starts(<<"&", "l", "t", ";">>) THEN <<"<">> \o Unescape(rest(<<"&", "l", "t", ";">>))
      ELSE IF starts(<<"&", "g", "t", ";">>) THEN <<">">> \o Unescape(rest(<<"&", "g", "t", ";">>))
      ELSE IF starts(<<"&", "q", "u", "o", "t", ";">>) THEN <<DQ>> \o Unescape(rest(<<"&", "q", "u", "o", "t", ";">>))
      ELSE IF starts(<<"&", "#", "3", "9", ";">>) THEN <<SQ>> \o Unescape(rest(<<"&", "#", "3", "9", ";">>))
      ELSE <<Head(s)>> \o Unescape(Tail(s))

\* The text of the call that goes into the markup.
TooltipTexts ==
  {callArgs.attributes.name, callArgs.attributes.id, callArgs.attributes.autocomplete,
   callArgs.attributes.type}
  \cup {callArgs.risks[k].message : k \in DOMAIN callArgs.risks}

Count(s, c) == Cardinality({i \in DOMAIN s : s[i] = c})

StartsAt(s, i, part) == i + Len(part) - 1 <= Len(s) /\ SubSeq(s, i, i + Len(part) - 1) = part

\* The markup for the same level and the same number of findings when every
\* attribute and every message is plain text.
PlainTooltip ==
  TooltipContent(callArgs.riskLevel,
                 [k \in DOMAIN callArgs.risks |->
                    [type |-> callArgs.risks[k].type, message |-> <<"a">>]],
                 [name |-> <<"a">>, id |-> <<"a">>, autocomplete |-> <<"a">>, type |-> <<"a">>])

\* C33 (tooltip escaping): whatever the name, id, autocomplete and type
\* attributes and the finding messages are, each of them is in the markup in
\* its escaped form, which holds none of < > " ' and reads back as the value;
\* every < of the markup opens one of the tags strong, /strong and br of the
\* template, and the markup holds as many < > " and ' as the markup for plain
\* values, so that no value adds an element or an attribute.
C33_TooltipEscaping ==
  TooltipBuilt =>
    LET markup == callResult.s
    IN  /\ \A v \in TooltipTexts :
             /\ \A c \in {"<", ">", DQ, SQ} : Count(escapeHtml(v), c) = 0
             /\ Unescape(escapeHtml(v)) = v
             /\ \E i \in DOMAIN markup : StartsAt(markup, i, escapeHtml(v) \o <<"<", "b", "r", ">">>)
        /\ \A i \in DOMAIN markup :
             markup[i] = "<" =>
               \E tag \in {<<"<", "s", "t", "r", "o", "n", "g", ">">>, <<"<", "/", "s", "t", "r", "o", "n", "g", ">">>, <<"<", "b", "r", ">">>} : StartsAt(markup, i, tag)
        /\ \A c \in {"<", ">", DQ, SQ} : Count(markup, c) = Count(PlainTooltip, c)

\* The name is the beginning of an element with an attribute and a finding
\* message holds a quote: the markup holds the name with its < as an entity.
C33_Witness ==
  /\ TooltipBuilt
  /\ callArgs.attributes.name = <<"<", "b", " ", "x", "=">>
  /\ \E k \in DOMAIN callArgs.risks : callArgs.risks[k].message = <<SQ>>
  /\ \E i \in DOMAIN callResult.s : StartsAt(callResult.s, i, <<" ", "n", "a", "m", "e", ":", " ", "&", "l", "t", ";", "b", " ", "x", "=", "<", "b", "r", ">">>)

\* C34 (tooltip auto-hide): a tooltip in the document has the auto-hide timer
\* of its badge pending, and no badge has more than one; the mouseenter
\* listener of a badge in the document, run in any reachable state, leaves the
\* tooltip shown with exactly one timer, also when one was pending; the
\* mouseleave listener leaves the tooltip out of the document and no timer;
\* and with timers that fire, every tooltip in the document leaves it.
C34_TooltipAutoHide ==
  /\ [](\A i \in OvIds :
          /\ ov[i].tipInDoc => ov[i].timers > 0
          /\ ov[i].timers <= 1
          /\ ov[i].inDoc =>
               /\ BadgeMouseEnter(Cur, i).ov[i].tipInDoc
               /\ BadgeMouseEnter(Cur, i).ov[i].timers = 1
               /\ ~BadgeMouseLeave(Cur, i).ov[i].tipInDoc
               /\ BadgeMouseLeave(Cur, i).ov[i].timers = 0)
  /\ \A i \in OvIds : ov[i].tipInDoc ~> ~ov[i].tipInDoc

\* A scroll removed the tooltip of the badge the pointer is over, and the
\* timer of the badge is still pending: a further mouseenter finds it.
C34_Witness ==
  \E i \in OvIds :
    /\ hovered = i /\ ov[i].inDoc
    /\ ~ov[i].tipInDoc /\ ov[i].timers = 1

\* ------------------------------------------------- utils.js: recent payloads
MAX_RECENT == 5
MaxRecentLen == 6

Recent(category, index, value) ==
  [category |-> category, index |-> index, value |-> value]

SameKey(r, category, index) == r.category = category /\ r.index = index

\* addToRecentList without the removal of the entry that exists already.
addToRecentList_KeepExisting(recentPayloads, category, index, value) ==
  LET added == <<Recent(category, index, value)>> \o recentPayloads
  IN  [returned |-> IF Len(added) > MAX_RECENT THEN SubSeq(added, 1, MAX_RECENT)
                    ELSE added,
       recentPayloads |-> recentPayloads]

\* addToRecentList(recentPayloads, category, index, value): what it returns,
\* and the array it was given as it is after the call (filter builds a new
\* array, unshift and slice work on that one).
addToRecentList(recentPayloads, category, index, value) ==
  LET filtered == SelectSeq(recentPayloads, LAMBDA r : ~SameKey(r, category, index))
      added == <<Recent(category, index, value)>> \o filtered
  IN  [returned |-> IF Len(added) > MAX_RECENT THEN SubSeq(added, 1, MAX_RECENT)
                    ELSE added,
       recentPayloads |-> recentPayloads]

\* Six payloads of three categories, and a second value for the first.
RecentEntries ==
  {Recent(c, i, "v") : c \in {"Emails", "XSS", "SQL"}, i \in {0, 1}}
  \cup {Recent("Emails", 0, "w")}

DistinctKeys(list) ==
  \A j, k \in DOMAIN list :
    (list[j].category = list[k].category /\ list[j].index = list[k].index) => j = k

\* Every list of up to three entries, and the lists of up to MaxRecentLen
\* entries that hold no payload twice.
RecentLists ==
  UNION {[1..n -> RecentEntries] : n \in 0..3}
  \cup UNION {{l \in [1..n -> RecentEntries] : DistinctKeys(l)} : n \in 4..MaxRecentLen}

RecentInit ==
  /\ PageQuiet
  /\ callArgs \in
       {[fn |-> "addToRecentList", recentPayloads |-> l, category |-> e.category,
         index |-> e.index, value |-> e.value] :
          l \in RecentLists,
          e \in {Recent("Emails", 0, "v"), Recent("Emails", 0, "w"),
                 Recent("SQL", 1, "v"), Recent("Names", 0, "v")}}
  /\ callResult = Pending

CallAddToRecentList ==
  /\ callResult = Pending
  /\ callArgs.fn = "addToRecentList"
  /\ callResult' = [t |-> "returned"] @@
       addToRecentList(callArgs.recentPayloads, callArgs.category, callArgs.index,
                       callArgs.value)
  /\ UNCHANGED <<ovVars, wsVars, hlVars, callArgs>>

RecentNext == CallAddToRecentList

SpecRecent == RecentInit /\ [][RecentNext]_vars

RecentReturned == callArgs.fn = "addToRecentList" /\ callResult # Pending

\* The entries of the call's list other than the payload added, in their order.
OtherEntries ==
  SelectSeq(callArgs.recentPayloads,
            LAMBDA r : r.category # callArgs.category \/ r.index # callArgs.index)

\* C35 (recent-payload list): the list returned begins with the new payload,
\* holds after it the other entries of the given list in their order, as many
\* as fit into MAX_RECENT entries, holds no payload twice when the given list
\* held none twice, and the given list is as it was.
C35_RecentList ==
  RecentReturned =>
    LET out == callResult.returned
    IN  /\ Len(out) >= 1
        /\ out[1] = Recent(callArgs.category, callArgs.index, callArgs.value)
        /\ Len(out) <= 5
        /\ Len(out) = IF Len(OtherEntries) >= 4 THEN 5 ELSE 1 + Len(OtherEntries)
        /\ Tail(out) = SubSeq(OtherEntries, 1, Len(out) - 1)
        /\ DistinctKeys(callArgs.recentPayloads) => DistinctKeys(out)
        /\ callResult.recentPayloads = callArgs.recentPayloads

\* A payload that is in a list of five under another value was used again: it
\* moved to the front with the new value and the list still has five entries.
C35_Witness ==
  /\ RecentReturned
  /\ callArgs.recentPayloads =
       <<Recent("XSS", 0, "v"), Recent("XSS", 1, "v"), Recent("Emails", 0, "v"),
         Recent("SQL", 0, "v"), Recent("SQL", 1, "v")>>
  /\ callArgs.category = "Emails" /\ callArgs.index = 0 /\ callArgs.value = "w"
  /\ callResult.returned =
       <<Recent("Emails", 0, "w"), Recent("XSS", 0, "v"), Recent("XSS", 1, "v"),
         Recent("SQL", 0, "v"), Recent("SQL", 1, "v")>>

HasKind(r, type) == \E k \in DOMAIN r.risks : r.risks[k].type = type

\* C36 (level follows the kinds of the findings): for every call that returns
\* a verdict, riskLevel is high exactly when the findings hold an error,
\* medium exactly when they hold a warning and no error, and low exactly when
\* they hold info findings only or none.
C36_LevelFromFindings ==
  Verdict =>
    /\ callResult.riskLevel \in {"low", "medium", "high"}
    /\ callResult.riskLevel = "high" <=> HasKind(callResult, "error")
    /\ callResult.riskLevel = "medium" <=>
         (HasKind(callResult, "warning") /\ ~HasKind(callResult, "error"))
    /\ callResult.riskLevel = "low" <=>
         \A k \in DOMAIN callResult.risks : callResult.risks[k].type = "info"

\* A text input with autocomplete off whose name holds a keyword: an info
\* finding and a warning, level medium.
C36_Witness ==
  /\ Verdict
  /\ callArgs.attrs = Attrs(Str(<<"i", "n", "p", "u", "t">>), Str(<<"t", "e", "x", "t">>), Str(<<"u", "s", "e", "r", "E", "m", "a", "i", "l">>), Str(<<>>),
                            Str(<<"o", "f", "f">>), Str(<<>>), Str(<<>>))
  /\ HasKind(callResult, "info") /\ HasKind(callResult, "warning")
  /\ callResult.riskLevel = "medium"

\* C37 (counters never negative and consistent): in every state of the
\* overlay engine each of fieldStats.high, medium, low and total is at least 0
\* and total is the sum of the other three, also after the removal of a field
\* that was classified with an empty list of findings.
C37_CountersConsistent ==
  /\ fieldStats.high >= 0 /\ fieldStats.medium >= 0 /\ fieldStats.low >= 0
  /\ fieldStats.total >= 0
  /\ fieldStats.total = fieldStats.high + fieldStats.medium + fieldStats.low

\* No rescan debounce timer is pending.
Quiescent == rescanTimeout = "dead" /\ rescanQ = <<>>

\* C38 (reported stats are current at quiescence): between two tasks, when no
\* rescan debounce timer is pending, the stats of the last report sent to the
\* badge consumer are the current fieldStats.
C38_ReportsCurrent ==
  (Quiescent /\ lastReport # <<>>) => lastReport[1] = fieldStats

\* The engine is enabled, one field is in the document and has an overlay, no
\* rescan timer is pending, and the last report carries the current counters.
C38_Witness ==
  /\ isEnabled /\ Quiescent
  /\ Cardinality(attached) = 1
  /\ fieldStats.total = 1
  /\ lastReport = <<fieldStats>>


\* The highlight spans in the document, by their node.
AttachedSpans(natt, txt) == {n \in natt : txt[n] \in Marked}

\* The step is a debounced incremental pass that scans and reports.
ScanningPassStep ==
  /\ PassStep /\ pendingMutationTargets # {}
  /\ wordScannerEnabled /\ forbiddenWords # "empty"

\* What a full scan started in the current state reports and tracks is what
\* it leaves attached.
FullScanCountMatches ==
  wordScannerEnabled =>
    LET r == scanForForbiddenWords(CurW, nodeAttached)
    IN /\ r.sent = <<Cardinality(AttachedSpans(nodeAttached, r.text))>>
       /\ r.tracked = AttachedSpans(nodeAttached, r.text)

\* C39 (reported count matches the document): after a full scan, and after
\* an incremental pass, the tracked highlight set (whose size is the count
\* reported to the badge) is the set of highlight spans attached to the
\* document: the count equals their number and no tracked span is detached,
\* also when the page removed an element holding a highlight between two
\* incremental passes.
C39_CountMatchesDocument ==
  /\ []FullScanCountMatches
  /\ [][ScanningPassStep =>
          /\ Cardinality(wordScannerHighlights') =
               Cardinality(AttachedSpans(nodeAttached', nodeText'))
          /\ wordScannerHighlights' \subseteq nodeAttached']_vars


\* C40 (no observer while the word scanner is disabled): in every state in
\* which wordScannerEnabled is false the scanner's mutation observer is not
\* connected and no debounce timer of the scanner is pending, also when the
\* scanner was enabled while the document was loading and disabled again
\* before DOMContentLoaded.
C40_NoObserverWhileDisabled ==
  ~wordScannerEnabled => (~wsConnected /\ wsTimers = 0)
====
